---- MODULE Spec2Model ----
(***************************************************************************)
(* Model of the sqlite3 emulator of src/project.py: the process-wide       *)
(* registries _ALL_DATABASES / _ALL_DATABASES_LOCKSYSTEMS, the LockSystem  *)
(* counters, the per-connection transaction state and the statement        *)
(* executors of Connection.execute.                                        *)
(*                                                                         *)
(* Python objects have identity: a Database object is a cell of `heap`,    *)
(* and connections and the registry hold the cell's id.  copy.deepcopy     *)
(* allocates a new cell; an assignment of a reference copies the id.       *)
(***************************************************************************)
EXTENDS Integers, Sequences, FiniteSets, TLC

\* ------------------------------------------------------------------ bounds
NConn == 2
MaxRows == 1
MaxVal == 1
MaxShared == 2

\* ------------------------------------------------------------ input sets
Conns == 1..NConn
FileNames == {"f"}
OtherFileNames == {"g"}
TableNames == {"t"}
ViewNames == {"v"}
Values == 1..MaxVal
BeginModes == {"DEFERRED", "TRANSACTION", "IMMEDIATE", "EXCLUSIVE", "BOGUS"}
KnownModes == {"DEFERRED", "TRANSACTION", "IMMEDIATE", "EXCLUSIVE"}

None == "None"
NoId == -1
Ids == 0..(NConn + Cardinality(FileNames \cup OtherFileNames))

VARIABLES
    heap,           \* id -> Database object (the live Python objects)
    allDatabases,   \* _ALL_DATABASES: filename -> id, NoId when the key is absent
    lockSystems,    \* _ALL_DATABASES_LOCKSYSTEMS: filename -> LockSystem counters
    conns,          \* Connection objects: their __slots__
    last,           \* the last call made: who, what, how it ended, what it returned
    wrote,          \* history: the connection's transaction has executed a write
    begun           \* history: the committed database as of the connection's BEGIN
                    \* that returned, valid until another connection publishes

vars == <<heap, allDatabases, lockSystems, conns, last, wrote, begun>>

\* ------------------------------------------------------------ cell values
IntV(n) == [ty |-> "INTEGER", v |-> n]
NullV == [ty |-> "NULL", v |-> 0]
\* The n-th text in str order, a Python str; the 0-th is the empty text.
TextV(n) == [ty |-> "TEXT", v |-> n]
\* The float of value n, a number written with a point.
RealV(n) == [ty |-> "REAL", v |-> n]

\* ---------------------------------------------------------- sequence helpers
SeqIndex(s, x) == CHOOSE i \in 1..Len(s) : s[i] = x /\ \A j \in 1..(i - 1) : s[j] # x
InSeq(s, x) == \E i \in 1..Len(s) : s[i] = x
Range(s) == {s[i] : i \in 1..Len(s)}

\* ------------------------------------------------------------- LockSystem
NewLockSystem == [shared |-> 0, reserved |-> 0, exclusive |-> 0]

has_shared(L) == L.shared # 0
has_reserved(L) == L.reserved # 0
has_exclusive(L) == L.exclusive # 0

\* A lock operation returns the counters and whether it returned True (ok)
\* or raised (ok = FALSE).
\* add_shared that does not look at the exclusive counter.
add_shared_unchecked(L) == [ok |-> TRUE, ls |-> [L EXCEPT !.shared = @ + 1]]

add_shared(L) ==
    IF ~has_exclusive(L)
    THEN [ok |-> TRUE, ls |-> [L EXCEPT !.shared = @ + 1]]
    ELSE [ok |-> FALSE, ls |-> L]

remove_shared(L) == [L EXCEPT !.shared = @ - 1]

\* add_reserved that does not look at the reserved counter.
add_reserved_unchecked(L, current_lock) ==
    IF has_exclusive(L) THEN [ok |-> FALSE, ls |-> L]
    ELSE [ok |-> TRUE,
          ls |-> [(IF current_lock = "shared" THEN remove_shared(L) ELSE L)
                     EXCEPT !.reserved = @ + 1]]

\* add_reserved that gives up the caller's shared lock before it looks at
\* the counters.
add_reserved_drops_shared(L, current_lock) ==
    LET L1 == IF current_lock = "shared" THEN remove_shared(L) ELSE L
    IN IF has_reserved(L) THEN [ok |-> FALSE, ls |-> L1]
       ELSE IF has_exclusive(L) THEN [ok |-> FALSE, ls |-> L1]
       ELSE [ok |-> TRUE, ls |-> [L1 EXCEPT !.reserved = @ + 1]]

add_reserved(L, current_lock) ==
    IF has_reserved(L) THEN [ok |-> FALSE, ls |-> L]
    ELSE IF has_exclusive(L) THEN [ok |-> FALSE, ls |-> L]
    ELSE LET L1 == IF current_lock = "shared" THEN remove_shared(L) ELSE L
         IN [ok |-> TRUE, ls |-> [L1 EXCEPT !.reserved = @ + 1]]

remove_reserved(L) == [L EXCEPT !.reserved = @ - 1]

\* add_exclusive that does not look at the shared counter.
add_exclusive_over_readers(L, current_lock) ==
    IF has_exclusive(L) THEN [ok |-> FALSE, ls |-> L]
    ELSE IF has_reserved(L)
         THEN IF current_lock = "reserved"
              THEN [ok |-> TRUE,
                    ls |-> [L EXCEPT !.reserved = @ - 1, !.exclusive = @ + 1]]
              ELSE [ok |-> FALSE, ls |-> L]
         ELSE [ok |-> TRUE, ls |-> [L EXCEPT !.exclusive = @ + 1]]

add_exclusive(L, current_lock) ==
    IF has_exclusive(L) THEN [ok |-> FALSE, ls |-> L]
    ELSE IF has_shared(L) THEN [ok |-> FALSE, ls |-> L]
    ELSE IF has_reserved(L)
         THEN IF current_lock = "reserved"
              THEN [ok |-> TRUE,
                    ls |-> [L EXCEPT !.reserved = @ - 1, !.exclusive = @ + 1]]
              ELSE [ok |-> FALSE, ls |-> L]
         ELSE [ok |-> TRUE, ls |-> [L EXCEPT !.exclusive = @ + 1]]

remove_exclusive(L) == [L EXCEPT !.exclusive = @ - 1]

\* add_lock without the test `current_lock == lock_type`.
add_lock_again(L, lock_type, current_lock) ==
    IF lock_type = "shared" THEN add_shared(L)
    ELSE IF lock_type = "reserved" THEN add_reserved(L, current_lock)
    ELSE add_exclusive(L, current_lock)

add_lock(L, lock_type, current_lock) ==
    IF current_lock # None /\ current_lock = lock_type THEN [ok |-> TRUE, ls |-> L]
    ELSE IF lock_type = "shared" THEN add_shared(L)
    ELSE IF lock_type = "reserved" THEN add_reserved(L, current_lock)
    ELSE add_exclusive(L, current_lock)

\* remove_lock that gives nothing back.
remove_lock_kept(L, lock_type) == L

remove_lock(L, lock_type) ==
    IF lock_type = None THEN L
    ELSE IF lock_type = "shared" THEN remove_shared(L)
    ELSE IF lock_type = "reserved" THEN remove_reserved(L)
    ELSE IF lock_type = "exclusive" THEN remove_exclusive(L)
    ELSE L

\* ------------------------------------------------------------- statements
\* A statement after tokenize(): the verb, the table or view it names, the
\* BEGIN mode, the value of an INSERT / UPDATE, and whether it carries an
\* IF [NOT] EXISTS guard.
Stmt(op, name, mode, val, guard) ==
    [op |-> op, name |-> name, mode |-> mode, val |-> val, guard |-> guard]
NoStmt == Stmt("", "", "", 0, FALSE)
SelectStmt(n) == Stmt("SELECT", n, "", 0, FALSE)

\* ----------------------------------------------------------- column names
\* A column token: `x` is Col("", "x"), the qualified `t.x` is Col("t", "x"),
\* the wildcard is Col("", "*").
Col(tbl, col) == [tbl |-> tbl, col |-> col]
Star == Col("", "*")
IsQualified(c) == c.tbl # ""

\* A dict is a sequence of [k, v] in insertion order; assigning an existing
\* key keeps its position.
DictHas(d, k) == \E i \in 1..Len(d) : d[i].k = k
DictGet(d, k) == d[CHOOSE i \in 1..Len(d) : d[i].k = k].v
DictPut(d, k, v) ==
    IF DictHas(d, k)
    THEN [i \in 1..Len(d) |-> IF d[i].k = k THEN [k |-> k, v |-> v] ELSE d[i]]
    ELSE Append(d, [k |-> k, v |-> v])
DictPop(d, k) == SelectSeq(d, LAMBDA e : e.k # k)
DictKeys(d) == [i \in 1..Len(d) |-> d[i].k]
DictValues(d) == [i \in 1..Len(d) |-> d[i].v]

\* ------------------------------------------------------------ Table, View
\* Table.__init__ with the column list of a CREATE TABLE (name, type pairs).
NewTable(table_name, columns) ==
    LET schema == [i \in 1..Len(columns) |-> [k |-> columns[i].k, v |-> columns[i].v]]
    IN [name |-> table_name, kind |-> "Table", schema |-> schema,
        column_names |-> DictKeys(schema), default_values |-> <<>>,
        column_size |-> Len(schema), rows |-> <<>>, size |-> 0,
        statement |-> NoStmt, view_columns |-> <<>>, table_name |-> ""]

add_column(table, column_name, column_type) ==
    [table EXCEPT !.schema = DictPut(@, column_name, column_type),
                  !.column_names = Append(@, column_name),
                  !.column_size = @ + 1]

get_column_index(table, column_name) == SeqIndex(table.column_names, column_name)

RECURSIVE UnqualifiedSchema(_, _)
UnqualifiedSchema(table_schema, i) ==
    IF i = 0 THEN <<>>
    ELSE DictPut(UnqualifiedSchema(table_schema, i - 1),
                 Col("", table_schema[i].k.col), table_schema[i].v)

RECURSIVE RestrictSchema(_, _, _)
RestrictSchema(unqualified, view_columns, i) ==
    IF i = 0 THEN <<>>
    ELSE LET rest == RestrictSchema(unqualified, view_columns, i - 1)
         IN IF DictHas(unqualified, view_columns[i])
            THEN DictPut(rest, view_columns[i], DictGet(unqualified, view_columns[i]))
            ELSE rest

\* View.__init__
NewView(view_name, table_name, view_columns, table_schema, statement) ==
    LET unqualified == UnqualifiedSchema(table_schema, Len(table_schema))
        view_schema == IF InSeq(view_columns, Star) /\ Len(view_columns) = 1
                       THEN unqualified
                       ELSE RestrictSchema(unqualified, view_columns, Len(view_columns))
    IN [name |-> view_name, kind |-> "View", schema |-> view_schema,
        column_names |-> DictKeys(view_schema), default_values |-> <<>>,
        column_size |-> Len(view_schema), rows |-> <<>>, size |-> 0,
        statement |-> statement, view_columns |-> view_columns,
        table_name |-> table_name]

\* The type check of Table.insert_row for one (value, column type) pair.
TypeAccepts(value, value_type) ==
    \/ value.ty = "NULL"
    \/ value_type = "TEXT" /\ value.ty = "TEXT"
    \/ value_type = "REAL" /\ value.ty = "REAL"
    \/ value_type = "INTEGER" /\ value.ty = "INTEGER"
    \/ value_type = "BLOB"

Min(a, b) == IF a < b THEN a ELSE b

\* Table.insert_row(values, None): a positional insert.
insert_row(table, values) ==
    IF Len(values) > table.column_size THEN table
    ELSE LET types == DictValues(table.schema)
         IN IF \A i \in 1..Min(Len(values), Len(types)) : TypeAccepts(values[i], types[i])
            THEN [table EXCEPT !.rows = Append(@, values), !.size = @ + 1]
            ELSE table

RECURSIVE InsertAll(_, _, _)
InsertAll(table, result, i) ==
    IF i = 0 THEN table ELSE insert_row(InsertAll(table, result, i - 1), result[i])

\* Row.update_row
update_row(row, column_index, value) == [row EXCEPT ![column_index] = value]

\* Connection.select(table, ['*'], None, None, None): every row, whole,
\* an empty projection dropped.
select(table) == SelectSeq(table.rows, LAMBDA r : Len(r) # 0)

\* --------------------------------------------------------------- Database
NewDatabase(database_name) ==
    [name |-> database_name, size |-> 0, tables |-> <<>>, joined_table |-> <<>>]

HasTable(db, n) == DictHas(db.tables, n)
GetTable(db, n) == DictGet(db.tables, n)

add_table(db, table_name, columns) ==
    [db EXCEPT !.tables = DictPut(@, table_name, NewTable(table_name, columns)),
               !.size = @ + 1]

remove_table(db, table_name) ==
    [db EXCEPT !.tables = DictPop(@, table_name), !.size = @ - 1]

add_view(db, view_name, table_name, view_columns, schema, statement) ==
    [db EXCEPT !.tables = DictPut(@, view_name,
                   NewView(view_name, table_name, view_columns, schema, statement)),
               !.size = @ + 1]

PutTable(db, table) == [db EXCEPT !.tables = DictPut(@, table.name, table)]

\* ------------------------------------------------------------- Connection
\* The world a call acts on: w.heap, w.all (_ALL_DATABASES), w.ls
\* (_ALL_DATABASES_LOCKSYSTEMS) and w.cn (the Connection objects).
NewConnection ==
    [open |-> FALSE, filename |-> "", database |-> NoId,
     transaction_mode |-> None, transaction_lock |-> None]

FreshId(w) ==
    CHOOSE i \in Ids \ DOMAIN w.heap : \A j \in Ids \ DOMAIN w.heap : i <= j

\* An assignment of the reference where the code copies.
DeepCopyCommitted_shared(w, c) == [w EXCEPT !.cn[c].database = w.all[w.cn[c].filename]]

\* self.database = copy.deepcopy(_ALL_DATABASES[self.filename])
DeepCopyCommitted(w, c) ==
    LET id == FreshId(w)
        src == w.heap[w.all[w.cn[c].filename]]
    IN [w EXCEPT !.heap = [i \in DOMAIN w.heap \cup {id} |->
                              IF i = id THEN src ELSE w.heap[i]],
                 !.cn[c].database = id]

\* self.database = _ALL_DATABASES[self.filename]
PointAtCommitted(w, c) == [w EXCEPT !.cn[c].database = w.all[w.cn[c].filename]]

\* A publication that stores self.database under every key of the registry.
Publish_everywhere(w, c) == [w EXCEPT !.all = [g \in DOMAIN w.all |-> w.cn[c].database]]

\* _ALL_DATABASES[self.filename] = self.database
Publish(w, c) == [w EXCEPT !.all[w.cn[c].filename] = w.cn[c].database]

\* The Database object self.database refers to, and its replacement by a
\* mutated value (a mutation in place: every holder of the id sees it).
WorkingDb(w, c) == w.heap[w.cn[c].database]
MutateDb(w, c, db) == [w EXCEPT !.heap[w.cn[c].database] = db]

Done(w) == [w |-> w, ok |-> TRUE]
Raised(w) == [w |-> w, ok |-> FALSE]

\* Connection.lock_check(action), a branch at a time; ok = FALSE when the
\* LockSystem call raised.
\* The read branch without `self.database = _ALL_DATABASES[self.filename]`.
lock_check_read_stale(w, c) ==
    LET f == w.cn[c].filename
        r == add_lock(w.ls[f], "shared", w.cn[c].transaction_lock)
    IN IF r.ok
       THEN Done([w EXCEPT !.ls[f] = r.ls, !.cn[c].transaction_lock = "shared"])
       ELSE Raised(w)

\* auto-commit, action "read"
lock_check_read(w, c) ==
    LET f == w.cn[c].filename
        r == add_lock(w.ls[f], "shared", w.cn[c].transaction_lock)
    IN IF r.ok
       THEN Done(PointAtCommitted(
                [w EXCEPT !.ls[f] = r.ls, !.cn[c].transaction_lock = "shared"], c))
       ELSE Raised(w)

\* auto-commit, action "write"
lock_check_write(w, c) ==
    LET f == w.cn[c].filename
        r == add_lock(w.ls[f], "exclusive", w.cn[c].transaction_lock)
    IN IF r.ok
       THEN Done(DeepCopyCommitted(
                [w EXCEPT !.ls[f] = r.ls, !.cn[c].transaction_lock = "exclusive"], c))
       ELSE Raised(w)

\* auto-commit, action "commit"
lock_check_commit(w, c) ==
    LET f == w.cn[c].filename
        r == add_lock(w.ls[f], "exclusive", w.cn[c].transaction_lock)
    IN IF r.ok
       THEN Done(Publish(
                [w EXCEPT !.ls[f] = remove_lock(r.ls, "exclusive"),
                          !.cn[c].transaction_lock = None], c))
       ELSE Raised(w)

\* auto-commit, action "relinquish"
lock_check_relinquish(w, c) ==
    LET f == w.cn[c].filename
    IN Done([w EXCEPT !.ls[f] = remove_lock(@, w.cn[c].transaction_lock),
                      !.cn[c].transaction_lock = None])

\* DEFERRED
\* DEFERRED without the test `if self.transaction_lock: return None` of a read.
lock_check_deferred_rereads(w, c, action) ==
    LET f == w.cn[c].filename
        lk == w.cn[c].transaction_lock
    IN
    IF action = "read" THEN
        LET r == add_lock(w.ls[f], "shared", lk)
        IN IF r.ok
           THEN Done([w EXCEPT !.ls[f] = r.ls, !.cn[c].transaction_lock = "shared"])
           ELSE Raised(w)
    ELSE IF action = "write" THEN
        LET r == add_lock(w.ls[f], "reserved", lk)
        IN IF r.ok
           THEN Done([w EXCEPT !.ls[f] = r.ls, !.cn[c].transaction_lock = "reserved"])
           ELSE Raised(w)
    ELSE Done(w)

lock_check_deferred(w, c, action) ==
    LET f == w.cn[c].filename
        lk == w.cn[c].transaction_lock
    IN
    IF action = "read" THEN
        IF lk # None THEN Done(w)
        ELSE LET r == add_lock(w.ls[f], "shared", lk)
             IN IF r.ok
                THEN Done([w EXCEPT !.ls[f] = r.ls, !.cn[c].transaction_lock = "shared"])
                ELSE Raised(w)
    ELSE IF action = "write" THEN
        LET r == add_lock(w.ls[f], "reserved", lk)
        IN IF r.ok
           THEN Done([w EXCEPT !.ls[f] = r.ls, !.cn[c].transaction_lock = "reserved"])
           ELSE Raised(w)
    ELSE Done(w)

\* IMMEDIATE
lock_check_immediate(w, c, action) ==
    LET f == w.cn[c].filename
        lk == w.cn[c].transaction_lock
    IN
    IF action = "read" THEN Done(w)
    ELSE IF action = "write" THEN
        IF lk # None /\ lk = "exclusive" THEN Done(w)
        ELSE LET r == add_lock(w.ls[f], "reserved", lk)
             IN IF r.ok
                THEN Done([w EXCEPT !.ls[f] = r.ls, !.cn[c].transaction_lock = "reserved"])
                ELSE Raised(w)
    ELSE Done(w)

lock_check(w, c, action) ==
    LET mode == w.cn[c].transaction_mode
    IN
    IF mode = None THEN
        IF action = "read" THEN lock_check_read(w, c)
        ELSE IF action = "write" THEN lock_check_write(w, c)
        ELSE IF action = "commit" THEN lock_check_commit(w, c)
        ELSE IF action = "relinquish" THEN lock_check_relinquish(w, c)
        ELSE Done(w)
    ELSE IF mode = "DEFERRED" THEN lock_check_deferred(w, c, action)
    ELSE IF mode = "IMMEDIATE" THEN lock_check_immediate(w, c, action)
    ELSE Done(w)

\* ----------------------------------------------------- Connection.execute
\* A call ends with an outcome: "ok" when it returns, otherwise the error it
\* raised; w is the world it leaves behind either way.
Return(w, result) == [w |-> w, outcome |-> "ok", result |-> result]
Raise(w, kind) == [w |-> w, outcome |-> kind, result |-> <<>>]

\* `if self.transaction_mode is None: self.lock_check("commit")` and return.
CommitReturn(r) == IF r.ok THEN Return(r.w, <<>>) ELSE Raise(r.w, "lock-conflict")
CommitIfAuto(w, c) ==
    IF w.cn[c].transaction_mode = None
    THEN CommitReturn(lock_check(w, c, "commit"))
    ELSE Return(w, <<>>)

\* The relinquish after a read without the test of the transaction mode.
RelinquishAlways(w, c) == lock_check_relinquish(w, c).w

RelinquishIfAuto(w, c) ==
    IF w.cn[c].transaction_mode = None THEN lock_check(w, c, "relinquish").w ELSE w

\* BEGIN that opens every transaction the DEFERRED way, whatever the mode.
ExecBegin_all_deferred(w, c, mode) ==
    IF w.cn[c].transaction_mode # None THEN Raise(w, "transaction-state")
    ELSE IF mode \in KnownModes THEN
        Return([DeepCopyCommitted(w, c) EXCEPT
                    !.cn[c].transaction_mode = "DEFERRED",
                    !.cn[c].transaction_lock = None], <<>>)
    ELSE Raise(w, "transaction-state")

ExecBegin(w, c, mode) ==
    LET f == w.cn[c].filename
    IN
    IF w.cn[c].transaction_mode # None THEN Raise(w, "transaction-state")
    ELSE IF mode = "DEFERRED" \/ mode = "TRANSACTION" THEN
        Return([DeepCopyCommitted(w, c) EXCEPT
                    !.cn[c].transaction_mode = "DEFERRED",
                    !.cn[c].transaction_lock = None], <<>>)
    ELSE IF mode = "IMMEDIATE" THEN
        LET w1 == [DeepCopyCommitted(w, c) EXCEPT !.cn[c].transaction_mode = "IMMEDIATE"]
            r == add_lock(w1.ls[f], "reserved", None)
        IN IF r.ok
           THEN Return([w1 EXCEPT !.ls[f] = r.ls,
                                  !.cn[c].transaction_lock = "reserved"], <<>>)
           ELSE Raise(w1, "lock-conflict")
    ELSE IF mode = "EXCLUSIVE" THEN
        LET w1 == [DeepCopyCommitted(w, c) EXCEPT !.cn[c].transaction_mode = "EXCLUSIVE"]
            r == add_lock(w1.ls[f], "exclusive", None)
        IN IF r.ok
           THEN Return([w1 EXCEPT !.ls[f] = r.ls,
                                  !.cn[c].transaction_lock = "exclusive"], <<>>)
           ELSE Raise(w1, "lock-conflict")
    ELSE Raise(w, "transaction-state")

\* COMMIT that publishes and gives the lock back but leaves
\* self.transaction_lock and self.transaction_mode as they were.
ExecCommit_stays_open(w, c) ==
    LET f == w.cn[c].filename
        lk == w.cn[c].transaction_lock
    IN
    IF w.cn[c].transaction_mode = None THEN Raise(w, "transaction-state")
    ELSE IF lk = None THEN
        Return(PointAtCommitted([w EXCEPT !.cn[c].transaction_mode = None], c), <<>>)
    ELSE IF lk = "shared" THEN
        Return(PointAtCommitted([w EXCEPT !.ls[f] = remove_lock(@, lk)], c), <<>>)
    ELSE IF lk = "reserved" THEN
        LET r == add_lock(w.ls[f], "exclusive", lk)
        IN IF r.ok
           THEN Return(Publish([w EXCEPT !.ls[f] = remove_lock(r.ls, "exclusive")], c), <<>>)
           ELSE Raise(w, "lock-conflict")
    ELSE IF lk = "exclusive" THEN
        Return(Publish([w EXCEPT !.ls[f] = remove_lock(@, lk)], c), <<>>)
    ELSE Return(w, <<>>)

\* COMMIT that abandons the transaction when the upgrade of its reserved
\* lock is refused.
ExecCommit_gives_up(w, c) ==
    LET f == w.cn[c].filename
        lk == w.cn[c].transaction_lock
    IN
    IF w.cn[c].transaction_mode = None THEN Raise(w, "transaction-state")
    ELSE IF lk = None THEN
        Return(PointAtCommitted([w EXCEPT !.cn[c].transaction_mode = None], c), <<>>)
    ELSE IF lk = "shared" THEN
        Return(PointAtCommitted(
                  [w EXCEPT !.ls[f] = remove_lock(@, lk),
                            !.cn[c].transaction_lock = None,
                            !.cn[c].transaction_mode = None], c), <<>>)
    ELSE IF lk = "reserved" THEN
        LET r == add_lock(w.ls[f], "exclusive", lk)
        IN IF r.ok
           THEN Return(Publish(
                    [w EXCEPT !.ls[f] = remove_lock(r.ls, "exclusive"),
                              !.cn[c].transaction_lock = None,
                              !.cn[c].transaction_mode = None], c), <<>>)
           ELSE Raise(PointAtCommitted(
                    [w EXCEPT !.ls[f] = remove_lock(@, lk),
                              !.cn[c].transaction_lock = None,
                              !.cn[c].transaction_mode = None], c), "lock-conflict")
    ELSE IF lk = "exclusive" THEN
        Return(Publish(
                  [w EXCEPT !.ls[f] = remove_lock(@, lk),
                            !.cn[c].transaction_lock = None,
                            !.cn[c].transaction_mode = None], c), <<>>)
    ELSE Return(w, <<>>)

ExecCommit(w, c) ==
    LET f == w.cn[c].filename
        lk == w.cn[c].transaction_lock
    IN
    IF w.cn[c].transaction_mode = None THEN Raise(w, "transaction-state")
    ELSE IF lk = None THEN
        Return(PointAtCommitted([w EXCEPT !.cn[c].transaction_mode = None], c), <<>>)
    ELSE IF lk = "shared" THEN
        Return(PointAtCommitted(
                  [w EXCEPT !.ls[f] = remove_lock(@, lk),
                            !.cn[c].transaction_lock = None,
                            !.cn[c].transaction_mode = None], c), <<>>)
    ELSE IF lk = "reserved" THEN
        LET r == add_lock(w.ls[f], "exclusive", lk)
        IN IF r.ok
           THEN Return(Publish(
                    [w EXCEPT !.ls[f] = remove_lock(r.ls, "exclusive"),
                              !.cn[c].transaction_lock = None,
                              !.cn[c].transaction_mode = None], c), <<>>)
           ELSE Raise(w, "lock-conflict")
    ELSE IF lk = "exclusive" THEN
        Return(Publish(
                  [w EXCEPT !.ls[f] = remove_lock(@, lk),
                            !.cn[c].transaction_lock = None,
                            !.cn[c].transaction_mode = None], c), <<>>)
    ELSE Return(w, <<>>)

\* ROLLBACK without the test of self.transaction_mode.
ExecRollback_unguarded(w, c) ==
    Return(PointAtCommitted(
              [w EXCEPT !.ls[w.cn[c].filename] = remove_lock(@, w.cn[c].transaction_lock),
                        !.cn[c].transaction_lock = None,
                        !.cn[c].transaction_mode = None], c), <<>>)

\* ROLLBACK without `self.database = _ALL_DATABASES[self.filename]`.
ExecRollback_keeps_copy(w, c) ==
    LET f == w.cn[c].filename
    IN
    IF w.cn[c].transaction_mode = None THEN Raise(w, "transaction-state")
    ELSE Return([w EXCEPT !.ls[f] = remove_lock(@, w.cn[c].transaction_lock),
                          !.cn[c].transaction_lock = None,
                          !.cn[c].transaction_mode = None], <<>>)

ExecRollback(w, c) ==
    LET f == w.cn[c].filename
    IN
    IF w.cn[c].transaction_mode = None THEN Raise(w, "transaction-state")
    ELSE Return(PointAtCommitted(
                  [w EXCEPT !.ls[f] = remove_lock(@, w.cn[c].transaction_lock),
                            !.cn[c].transaction_lock = None,
                            !.cn[c].transaction_mode = None], c), <<>>)

\* The schemas a CREATE TABLE of the model declares: (x INTEGER), and
\* (x INTEGER, y TEXT).
XCol == Col("", "x")
YCol == Col("", "y")
TableColumns == <<[k |-> XCol, v |-> "INTEGER"]>>
XYColumns == <<[k |-> XCol, v |-> "INTEGER"], [k |-> YCol, v |-> "TEXT"]>>

\* CREATE TABLE [IF NOT EXISTS] name (columns);
ExecCreateTableOf(w, c, table_name, if_not_exists, columns) ==
    LET r == lock_check(w, c, "write")
    IN
    IF ~r.ok THEN Raise(r.w, "lock-conflict")
    ELSE IF HasTable(WorkingDb(r.w, c), table_name)
    THEN IF if_not_exists THEN Return(r.w, <<>>) ELSE Raise(r.w, "schema-violation")
    ELSE CommitIfAuto(
            MutateDb(r.w, c, add_table(WorkingDb(r.w, c), table_name, columns)), c)

\* CREATE TABLE [IF NOT EXISTS] name (x INTEGER);
ExecCreateTable(w, c, table_name, if_not_exists) ==
    ExecCreateTableOf(w, c, table_name, if_not_exists, TableColumns)

\* DROP TABLE [IF EXISTS] name;
ExecDropTable(w, c, table_name, if_exists) ==
    LET r == lock_check(w, c, "write")
    IN
    IF ~r.ok THEN Raise(r.w, "lock-conflict")
    ELSE IF ~HasTable(WorkingDb(r.w, c), table_name)
    THEN IF if_exists THEN Return(r.w, <<>>) ELSE Raise(r.w, "schema-violation")
    ELSE CommitIfAuto(MutateDb(r.w, c, remove_table(WorkingDb(r.w, c), table_name)), c)

\* INSERT INTO name VALUES (values);  a positional insert of one entry.
ExecInsertRow(w, c, table_name, values) ==
    LET r == lock_check(w, c, "write")
    IN
    IF ~r.ok THEN Raise(r.w, "lock-conflict")
    ELSE IF ~HasTable(WorkingDb(r.w, c), table_name) THEN Raise(r.w, "missing-table")
    ELSE LET db == WorkingDb(r.w, c)
             table == insert_row(GetTable(db, table_name), values)
         IN CommitIfAuto(MutateDb(r.w, c, PutTable(db, table)), c)

\* INSERT INTO name VALUES (val);
ExecInsert(w, c, table_name, val) == ExecInsertRow(w, c, table_name, <<IntV(val)>>)

\* Connection.delete_from(table_name, None)
delete_from(db, table_name) ==
    LET table == GetTable(db, table_name)
    IN IF table.size = 0 THEN db
       ELSE PutTable(db, [table EXCEPT !.rows = <<>>, !.size = 0])

\* DELETE FROM name;
ExecDelete(w, c, table_name) ==
    LET r == lock_check(w, c, "write")
    IN
    IF ~r.ok THEN Raise(r.w, "lock-conflict")
    ELSE IF ~HasTable(WorkingDb(r.w, c), table_name) THEN Raise(r.w, "missing-table")
    ELSE CommitIfAuto(MutateDb(r.w, c, delete_from(WorkingDb(r.w, c), table_name)), c)

\* Row.update_row assigns row_data[column_index]: a row that has no such
\* position raises IndexError, and the rows before it stay updated.
TooShort(table, column) ==
    {i \in 1..Len(table.rows) : Len(table.rows[i]) < get_column_index(table, column)}
UpdateRaises(table, column) ==
    table.size # 0 /\ (~InSeq(table.column_names, column) \/ TooShort(table, column) # {})

\* Connection.update_table(table, [[column, value]], None)
update_table(table, column, value) ==
    IF table.size = 0 \/ ~InSeq(table.column_names, column) THEN table
    ELSE [table EXCEPT !.rows =
            [i \in 1..Len(@) |->
                IF \E j \in TooShort(table, column) : j <= i
                THEN @[i]
                ELSE update_row(@[i], get_column_index(table, column), value)]]

\* UPDATE name SET column = value;
ExecUpdateTo(w, c, table_name, column, value) ==
    LET r == lock_check(w, c, "write")
    IN
    IF ~r.ok THEN Raise(r.w, "lock-conflict")
    ELSE IF ~HasTable(WorkingDb(r.w, c), table_name) THEN Raise(r.w, "missing-table")
    ELSE LET db == WorkingDb(r.w, c)
             table == update_table(GetTable(db, table_name), column, value)
         IN IF UpdateRaises(GetTable(db, table_name), column)
            THEN Raise(MutateDb(r.w, c, PutTable(db, table)), "index-error")
            ELSE CommitIfAuto(MutateDb(r.w, c, PutTable(db, table)), c)

\* UPDATE name SET x = val;
ExecUpdate(w, c, table_name, val) == ExecUpdateTo(w, c, table_name, XCol, IntV(val))

\* SELECT * FROM name;  A view re-executes its stored statement through
\* self.execute and is replaced, in self.database, by a fresh View holding
\* the rows that returned.
RECURSIVE ExecSelect(_, _, _)

\* self.database.tables[table.name] = new_view, then the SELECT on it.
SelectRefreshed(w, c, new_view) ==
    Return(RelinquishIfAuto(MutateDb(w, c, PutTable(WorkingDb(w, c), new_view)), c),
           select(new_view))

\* The view branch, after the stored statement ran (inner).
SelectView(inner, c, table) ==
    IF inner.outcome # "ok" THEN Raise(inner.w, inner.outcome)
    ELSE SelectRefreshed(inner.w, c,
            InsertAll(NewView(table.name, table.name, table.view_columns,
                              table.schema, table.statement),
                      inner.result, Len(inner.result)))

SelectFrom(w, c, table) ==
    IF table.kind = "View"
    THEN SelectView(ExecSelect(w, c, table.statement.name), c, table)
    ELSE Return(RelinquishIfAuto(w, c), select(table))

\* After lock_check("read") (r).
SelectLocked(r, c, table_name) ==
    IF ~r.ok THEN Raise(r.w, "lock-conflict")
    ELSE IF ~HasTable(WorkingDb(r.w, c), table_name) THEN Raise(r.w, "missing-table")
    ELSE SelectFrom(r.w, c, GetTable(WorkingDb(r.w, c), table_name))

ExecSelect(w, c, table_name) == SelectLocked(lock_check(w, c, "read"), c, table_name)

\* The rows of a LEFT OUTER JOIN of table1 and table2 on column x.
JoinedRows(table1, table2) ==
    LET i1 == get_column_index(table1, XCol)
        i2 == get_column_index(table2, XCol)
        primary_keys == {table1.rows[i][i1] : i \in 1..Len(table1.rows)}
        foreign_rows == SelectSeq(table2.rows, LAMBDA row : row[i2] \in primary_keys)
        Joined(row) ==
            IF \E j \in 1..Len(foreign_rows) : foreign_rows[j][i2] = row[i1]
            THEN row \o foreign_rows[CHOOSE j \in 1..Len(foreign_rows) :
                        /\ foreign_rows[j][i2] = row[i1]
                        /\ \A k \in 1..(j - 1) : foreign_rows[k][i2] # row[i1]]
            ELSE row \o [k \in 1..table2.column_size |-> NullV]
    IN [i \in 1..Len(table1.rows) |-> Joined(table1.rows[i])]

RECURSIVE AddColumns(_, _, _, _)
AddColumns(joined, table_name, schema, i) ==
    IF i = 0 THEN joined
    ELSE add_column(AddColumns(joined, table_name, schema, i - 1),
                    Col(table_name, schema[i].k.col), schema[i].v)

InsertRows(table, rows) == InsertAll(table, rows, Len(rows))

JoinTable(table1, table2) ==
    InsertRows(AddColumns(AddColumns(NewTable("JoinedTable", <<>>),
                                     table1.name, table1.schema, Len(table1.schema)),
                          table2.name, table2.schema, Len(table2.schema)),
               JoinedRows(table1, table2))

\* self.database.joined_table = joined_table, then the SELECT on it.
SelectJoined(w, c, joined_table) ==
    Return(RelinquishIfAuto(
               MutateDb(w, c, [WorkingDb(w, c) EXCEPT !.joined_table = <<joined_table>>]), c),
           select(joined_table))

\* After lock_check("read") (r).
JoinLocked(r, c, table1_name, table2_name) ==
    IF ~r.ok THEN Raise(r.w, "lock-conflict")
    ELSE IF ~HasTable(WorkingDb(r.w, c), table1_name) THEN Raise(r.w, "missing-table")
    ELSE IF ~HasTable(WorkingDb(r.w, c), table2_name) THEN Raise(r.w, "missing-table")
    ELSE SelectJoined(r.w, c, JoinTable(GetTable(WorkingDb(r.w, c), table1_name),
                                        GetTable(WorkingDb(r.w, c), table2_name)))

\* SELECT * FROM table1 LEFT OUTER JOIN table2 ON table1.x = table2.x;
ExecJoin(w, c, table1_name, table2_name) ==
    JoinLocked(lock_check(w, c, "read"), c, table1_name, table2_name)

\* The view is added to self.database with the rows the SELECT returned, and
\* joined_table is reset.
ViewAdded(w, c, view_name, table_name, table_schema, result) ==
    [PutTable(add_view(WorkingDb(w, c), view_name, table_name, <<Star>>,
                       table_schema, SelectStmt(table_name)),
              InsertRows(NewView(view_name, table_name, <<Star>>, table_schema,
                                 SelectStmt(table_name)), result))
        EXCEPT !.joined_table = <<>>]

\* After lock_check("write") (r2).
CreateViewLocked(r2, c, view_name, table_name, table_schema, result) ==
    IF ~r2.ok THEN Raise(r2.w, "lock-conflict")
    ELSE CommitIfAuto(
            MutateDb(r2.w, c, ViewAdded(r2.w, c, view_name, table_name, table_schema, result)),
            c)

\* After the view's SELECT ran (inner).
CreateViewSelected(inner, c, view_name, table_name) ==
    IF inner.outcome # "ok" THEN Raise(inner.w, inner.outcome)
    ELSE CreateViewLocked(lock_check(inner.w, c, "write"), c, view_name, table_name,
                          GetTable(WorkingDb(inner.w, c), table_name).schema, inner.result)

\* After lock_check("read") (r).
CreateViewChecked(r, c, view_name, table_name) ==
    IF ~r.ok THEN Raise(r.w, "lock-conflict")
    ELSE IF HasTable(WorkingDb(r.w, c), view_name) THEN Raise(r.w, "schema-violation")
    ELSE IF ~HasTable(WorkingDb(r.w, c), table_name) THEN Raise(r.w, "schema-violation")
    ELSE CreateViewSelected(ExecSelect(r.w, c, table_name), c, view_name, table_name)

\* CREATE VIEW view_name AS SELECT * FROM table_name;
ExecCreateView(w, c, view_name, table_name) ==
    CreateViewChecked(lock_check(w, c, "read"), c, view_name, table_name)

\* ------------------------------------------------------------------ state
\* Object ids are names only: after a call the live objects are renumbered
\* in the order the registry and the connections refer to them, and the
\* objects nothing refers to any more are dropped.
FileSeq == <<"f", "g">>
NFiles == Len(FileSeq)
Refs(w) ==
    [i \in 1..(NFiles + NConn) |->
        IF i <= NFiles
        THEN IF FileSeq[i] \in DOMAIN w.all THEN w.all[FileSeq[i]] ELSE NoId
        ELSE w.cn[i - NFiles].database]
RECURSIVE FirstSeen(_, _)
FirstSeen(refs, i) ==
    IF i = 0 THEN <<>>
    ELSE LET seen == FirstSeen(refs, i - 1)
         IN IF refs[i] = NoId \/ InSeq(seen, refs[i]) THEN seen ELSE Append(seen, refs[i])
Renumber(order, id) == IF id = NoId THEN NoId ELSE SeqIndex(order, id) - 1
CanonBy(w, order) ==
    [heap |-> [k \in 0..(Len(order) - 1) |-> w.heap[order[k + 1]]],
     all |-> [f \in DOMAIN w.all |-> Renumber(order, w.all[f])],
     ls |-> w.ls,
     cn |-> [c \in Conns |-> [w.cn[c] EXCEPT !.database = Renumber(order, @)]]]
Canon(w) == CanonBy(w, CHOOSE o \in {FirstSeen(Refs(w), NFiles + NConn)} : TRUE)

World == [heap |-> heap, all |-> allDatabases, ls |-> lockSystems, cn |-> conns]

\* The model's bounds: no table grows past MaxRows rows and the shared
\* counter is not driven past MaxShared.
WithinBounds(w) ==
    /\ \A id \in DOMAIN w.heap : \A i \in 1..Len(w.heap[id].tables) :
           Len(w.heap[id].tables[i].v.rows) <= MaxRows
    /\ \A f \in DOMAIN w.ls : w.ls[f].shared <= MaxShared

WriteOps == {"CREATE TABLE", "CREATE VIEW", "DROP TABLE", "INSERT", "DELETE", "UPDATE"}
ReadOps == {"SELECT", "JOIN"}

\* A call publishes when it returns from a COMMIT or from an auto-commit write.
Publishes(c, stmt, r) ==
    /\ r.outcome = "ok"
    /\ \/ stmt.op = "COMMIT"
       \/ stmt.op \in WriteOps /\ conns[c].transaction_mode = None

NoSnapshot == [valid |-> FALSE, db |-> NewDatabase("")]

\* One call of Connection.execute by connection c: the world it leaves, and
\* the record of the call.
Record(c, stmt, r, w2) ==
    LET f == conns[c].filename
    IN
    /\ WithinBounds(w2)
    /\ heap' = w2.heap
    /\ allDatabases' = w2.all
    /\ lockSystems' = w2.ls
    /\ conns' = w2.cn
    /\ last' = [conn |-> c, op |-> stmt.op, name |-> stmt.name,
                outcome |-> r.outcome, result |-> r.result]
    /\ wrote' = [d \in Conns |->
                    IF d # c THEN wrote[d]
                    ELSE IF stmt.op \in {"BEGIN", "COMMIT", "ROLLBACK"}
                         THEN IF r.outcome = "transaction-state" THEN wrote[d] ELSE FALSE
                    ELSE IF stmt.op \in WriteOps /\ r.outcome = "ok"
                            /\ conns[c].transaction_mode # None
                         THEN TRUE
                    ELSE wrote[d]]
    /\ begun' = [d \in Conns |->
                    IF d = c
                    THEN IF stmt.op = "BEGIN" /\ r.outcome = "ok"
                         THEN [valid |-> TRUE, db |-> heap[allDatabases[f]]]
                         ELSE IF stmt.op \in {"COMMIT", "ROLLBACK"} /\ r.outcome = "ok"
                         THEN NoSnapshot
                         ELSE begun[d]
                    ELSE IF Publishes(c, stmt, r) /\ conns[d].filename = f
                         THEN NoSnapshot
                         ELSE begun[d]]

\* The call is evaluated once (r) and its world renumbered once (w2).
Step(c, stmt, r) == \E w2 \in {Canon(r.w)} : Record(c, stmt, r, w2)

Init ==
    /\ heap = <<>>
    /\ allDatabases = <<>>
    /\ lockSystems = <<>>
    /\ conns = [c \in Conns |-> NewConnection]
    /\ last = [conn |-> 0, op |-> "", name |-> "", outcome |-> "", result |-> <<>>]
    /\ wrote = [c \in Conns |-> FALSE]
    /\ begun = [c \in Conns |-> NoSnapshot]

\* connect(filename): Connection.__init__.  No file of that name is on disk:
\* read_json_file raises FileNotFoundError and the database starts empty.
ConnectTo(c, f) ==
    LET w0 == World
        id == FreshId(w0)
        w1 == IF f \notin DOMAIN w0.all
              THEN [w0 EXCEPT
                      !.heap = [i \in DOMAIN w0.heap \cup {id} |->
                                   IF i = id THEN NewDatabase(f) ELSE w0.heap[i]],
                      !.all = [g \in DOMAIN w0.all \cup {f} |->
                                   IF g = f THEN id ELSE w0.all[g]],
                      !.ls = [g \in DOMAIN w0.ls \cup {f} |->
                                   IF g = f THEN NewLockSystem ELSE w0.ls[g]]]
              ELSE w0
        w2 == Canon([w1 EXCEPT !.cn[c] =
                      [open |-> TRUE, filename |-> f, database |-> w1.all[f],
                       transaction_mode |-> None, transaction_lock |-> None]])
    IN /\ heap' = w2.heap
       /\ allDatabases' = w2.all
       /\ lockSystems' = w2.ls
       /\ conns' = w2.cn
       /\ last' = [conn |-> c, op |-> "CONNECT", name |-> f,
                   outcome |-> "ok", result |-> <<>>]
       /\ UNCHANGED <<wrote, begun>>

Connect(c) ==
    /\ ~conns[c].open
    /\ \E f \in FileNames : ConnectTo(c, f)

\* connect(filename) when the program works on two files.
ConnectAny(c) ==
    /\ ~conns[c].open
    /\ \E f \in FileNames \cup OtherFileNames : ConnectTo(c, f)

\* The record of a BEGIN names the mode word when execute got to read it,
\* that is, when no transaction was open.
Begin(c) ==
    /\ conns[c].open
    /\ \E mode \in BeginModes :
        \E r \in {ExecBegin(World, c, mode)} :
            Step(c, Stmt("BEGIN", IF conns[c].transaction_mode = None THEN mode ELSE "",
                         mode, 0, FALSE), r)

Commit(c) ==
    /\ conns[c].open
    /\ \E r \in {ExecCommit(World, c)} : Step(c, Stmt("COMMIT", "", "", 0, FALSE), r)

Rollback(c) ==
    /\ conns[c].open
    /\ \E r \in {ExecRollback(World, c)} : Step(c, Stmt("ROLLBACK", "", "", 0, FALSE), r)

CreateTable(c) ==
    /\ conns[c].open
    /\ \E n \in TableNames, g \in BOOLEAN :
        \E r \in {ExecCreateTable(World, c, n, g)} :
            Step(c, Stmt("CREATE TABLE", n, "", 0, g), r)

CreateView(c) ==
    /\ conns[c].open
    /\ \E v \in ViewNames, n \in TableNames :
        \E r \in {ExecCreateView(World, c, v, n)} :
            Step(c, Stmt("CREATE VIEW", v, "", 0, FALSE), r)

DropTable(c) ==
    /\ conns[c].open
    /\ \E n \in TableNames \cup ViewNames, g \in BOOLEAN :
        \E r \in {ExecDropTable(World, c, n, g)} :
            Step(c, Stmt("DROP TABLE", n, "", 0, g), r)

Insert(c) ==
    /\ conns[c].open
    /\ \E n \in TableNames, val \in Values :
        \E r \in {ExecInsert(World, c, n, val)} :
            Step(c, Stmt("INSERT", n, "", val, FALSE), r)

Delete(c) ==
    /\ conns[c].open
    /\ \E n \in TableNames :
        \E r \in {ExecDelete(World, c, n)} : Step(c, Stmt("DELETE", n, "", 0, FALSE), r)

Update(c) ==
    /\ conns[c].open
    /\ \E n \in TableNames, val \in Values :
        \E r \in {ExecUpdate(World, c, n, val)} :
            Step(c, Stmt("UPDATE", n, "", val, FALSE), r)

\* The statements over a table of two columns: the cells are null, an
\* integer or a text, an INSERT lists one value or two, an UPDATE sets
\* either column to any cell.
Cells == {NullV} \cup {IntV(n) : n \in Values} \cup {TextV(n) : n \in Values}
ValueLists == UNION {[1..k -> Cells] : k \in 1..Len(XYColumns)}

CreateTableXY(c) ==
    /\ conns[c].open
    /\ \E n \in TableNames :
        \E r \in {ExecCreateTableOf(World, c, n, FALSE, XYColumns)} :
            Step(c, Stmt("CREATE TABLE", n, "", 0, FALSE), r)

InsertValues(c) ==
    /\ conns[c].open
    /\ \E n \in TableNames, values \in ValueLists :
        \E r \in {ExecInsertRow(World, c, n, values)} :
            Step(c, Stmt("INSERT", n, "", 0, FALSE), r)

UpdateTo(c) ==
    /\ conns[c].open
    /\ \E n \in TableNames, column \in {XCol, YCol}, value \in Cells :
        \E r \in {ExecUpdateTo(World, c, n, column, value)} :
            Step(c, Stmt("UPDATE", n, "", 0, FALSE), r)

Select(c) ==
    /\ conns[c].open
    /\ \E n \in TableNames \cup ViewNames :
        \E r \in {ExecSelect(World, c, n)} : Step(c, SelectStmt(n), r)

JoinSelect(c) ==
    /\ conns[c].open
    /\ \E n1 \in TableNames, n2 \in TableNames :
        \E r \in {ExecJoin(World, c, n1, n2)} : Step(c, Stmt("JOIN", n1, n2, 0, FALSE), r)

\* Transactions over tables and their rows.
Next ==
    \/ \E c \in Conns : Connect(c)
    \/ \E c \in Conns : Begin(c)
    \/ \E c \in Conns : Commit(c)
    \/ \E c \in Conns : Rollback(c)
    \/ \E c \in Conns : CreateTable(c)
    \/ \E c \in Conns : Insert(c)
    \/ \E c \in Conns : Select(c)

Spec == Init /\ [][Next]_vars

\* Transactions over tables and views: every way a statement takes, keeps,
\* releases or leaves behind a lock (a write that commits, returns early or
\* raises; a read that returns or raises; the read inside a read of a view;
\* the read-then-write of CREATE VIEW).
NextViews ==
    \/ \E c \in Conns : Connect(c)
    \/ \E c \in Conns : Begin(c)
    \/ \E c \in Conns : Commit(c)
    \/ \E c \in Conns : Rollback(c)
    \/ \E c \in Conns : CreateTable(c)
    \/ \E c \in Conns : CreateView(c)
    \/ \E c \in Conns : Select(c)

SpecViews == Init /\ [][NextViews]_vars

\* Transactions over tables and LEFT OUTER JOIN selects.
NextJoin ==
    \/ \E c \in Conns : Connect(c)
    \/ \E c \in Conns : Begin(c)
    \/ \E c \in Conns : Commit(c)
    \/ \E c \in Conns : Rollback(c)
    \/ \E c \in Conns : CreateTable(c)
    \/ \E c \in Conns : Insert(c)
    \/ \E c \in Conns : JoinSelect(c)

SpecJoin == Init /\ [][NextJoin]_vars

\* Transactions of connections that may be on different files.
NextFiles ==
    \/ \E c \in Conns : ConnectAny(c)
    \/ \E c \in Conns : Begin(c)
    \/ \E c \in Conns : Commit(c)
    \/ \E c \in Conns : CreateTable(c)
    \/ \E c \in Conns : Select(c)

SpecFiles == Init /\ [][NextFiles]_vars

\* Auto-commit statements over the rows of a table of two columns.
NextRows ==
    \/ \E c \in Conns : Connect(c)
    \/ \E c \in Conns : CreateTableXY(c)
    \/ \E c \in Conns : InsertValues(c)
    \/ \E c \in Conns : UpdateTo(c)
    \/ \E c \in Conns : Delete(c)
    \/ \E c \in Conns : Select(c)

SpecRows == Init /\ [][NextRows]_vars

\* Auto-commit statements over a table of one column and a view of it.
NextViewRows ==
    \/ \E c \in Conns : Connect(c)
    \/ \E c \in Conns : CreateTable(c)
    \/ \E c \in Conns : CreateView(c)
    \/ \E c \in Conns : Insert(c)
    \/ \E c \in Conns : UpdateTo(c)
    \/ \E c \in Conns : Delete(c)
    \/ \E c \in Conns : Select(c)

SpecViewRows == Init /\ [][NextViewRows]_vars

\* Auto-commit statements that create and drop a table of one or of two
\* columns and a view of it.
NextSchema ==
    \/ \E c \in Conns : Connect(c)
    \/ \E c \in Conns : CreateTable(c)
    \/ \E c \in Conns : CreateTableXY(c)
    \/ \E c \in Conns : CreateView(c)
    \/ \E c \in Conns : DropTable(c)
    \/ \E c \in Conns : Select(c)

SpecSchema == Init /\ [][NextSchema]_vars

\* The loop of an INSERT over the entries of its VALUES list, on its own:
\* a table of one column of any type tag (None: a column without one),
\* and VALUES lists of one or two entries of one or two values each.  The
\* record of a call carries the VALUES list as its result.
TypeTags == {"TEXT", "INTEGER", "REAL", "BLOB", None}
EntryCells ==
    {NullV} \cup {IntV(n) : n \in Values} \cup {TextV(n) : n \in Values}
            \cup {RealV(n) : n \in Values}
Entries == UNION {[1..k -> EntryCells] : k \in 1..2}
EntryLists == UNION {[1..k -> Entries] : k \in 1..2}
RowTable == CHOOSE n \in TableNames : TRUE
LockFile == CHOOSE f \in FileNames : TRUE

InitInsert ==
    /\ heap \in {[id \in {0} |->
                    add_table(NewDatabase(LockFile), RowTable, <<[k |-> XCol, v |-> tag]>>)] :
                 tag \in TypeTags}
    /\ allDatabases = [f \in {LockFile} |-> 0]
    /\ lockSystems = [f \in {LockFile} |-> NewLockSystem]
    /\ conns = [c \in Conns |-> NewConnection]
    /\ last = [conn |-> 0, op |-> "", name |-> "", outcome |-> "", result |-> <<>>]
    /\ wrote = [c \in Conns |-> FALSE]
    /\ begun = [c \in Conns |-> NoSnapshot]

InsertEntries ==
    \E entries \in EntryLists :
        \E table \in {GetTable(heap[0], RowTable)} :
            /\ Len(table.rows) <= MaxRows
            /\ heap' = [heap EXCEPT ![0] =
                            PutTable(@, InsertAll(table, entries, Len(entries)))]
            /\ last' = [conn |-> 0, op |-> "INSERT", name |-> RowTable,
                        outcome |-> "ok", result |-> entries]
            /\ UNCHANGED <<allDatabases, lockSystems, conns, wrote, begun>>

NextInsert == InsertEntries

SpecInsert == InitInsert /\ [][NextInsert]_vars

\* Row.check_row on its own.  Python's truth value of a cell: None, 0, 0.0
\* and '' are false.  An ordering between a text and a number, or with
\* None, raises TypeError; == between them is False.
Truthy(cell) == cell.ty # "NULL" /\ cell.v # 0
IsNumber(cell) == cell.ty \in {"INTEGER", "REAL"}
Comparable(a, b) == (IsNumber(a) /\ IsNumber(b)) \/ (a.ty = "TEXT" /\ b.ty = "TEXT")
PyEq(a, b) == (a.ty = "NULL" /\ b.ty = "NULL") \/ (Comparable(a, b) /\ a.v = b.v)
PyBool(b) == IF b THEN "True" ELSE "False"
PyOrder(a, b, holds) == IF Comparable(a, b) THEN PyBool(holds) ELSE "TypeError"

\* Row.check_row(column_name, column_index, op, value), column_value being
\* self.data[column_index]: "True", "False", or the error it raises.
check_row(column_value, op, value) ==
    IF value.ty = "NULL" /\ op = "IS" THEN PyBool(~Truthy(column_value))
    ELSE IF value.ty = "NULL" /\ op = "IS NOT" THEN PyBool(Truthy(column_value))
    ELSE IF value.ty # "NULL" /\ column_value.ty = "NULL" THEN "False"
    ELSE IF op = "=" THEN PyBool(PyEq(column_value, value))
    ELSE IF op = "!=" THEN PyBool(~PyEq(column_value, value))
    ELSE IF op = ">" THEN PyOrder(column_value, value, column_value.v > value.v)
    ELSE IF op = ">=" THEN PyOrder(column_value, value, column_value.v >= value.v)
    ELSE IF op = "<" THEN PyOrder(column_value, value, column_value.v < value.v)
    ELSE IF op = "<=" THEN PyOrder(column_value, value, column_value.v <= value.v)
    ELSE "False"

CompareOps == {"=", "!=", "<", "<=", ">", ">="}
PredicateOps == CompareOps \cup {"IS", "IS NOT", "LIKE"}
PredicateCells ==
    {NullV} \cup {IntV(n) : n \in 0..MaxVal} \cup {RealV(n) : n \in 0..MaxVal}
            \cup {TextV(n) : n \in 0..MaxVal}

InitPredicate ==
    /\ heap = <<>>
    /\ allDatabases = <<>>
    /\ lockSystems = <<>>
    /\ conns = [c \in Conns |-> NewConnection]
    /\ last = [conn |-> 0, op |-> "", name |-> "", outcome |-> "", result |-> <<>>]
    /\ wrote = [c \in Conns |-> FALSE]
    /\ begun = [c \in Conns |-> NoSnapshot]

\* The record of a call names the operator, carries the cell and the right
\* operand as its result, and what check_row returned as its outcome.
CheckRow ==
    \E column_value \in PredicateCells, op \in PredicateOps, value \in PredicateCells :
        /\ last' = [conn |-> 0, op |-> "check_row", name |-> op,
                    outcome |-> check_row(column_value, op, value),
                    result |-> <<column_value, value>>]
        /\ UNCHANGED <<heap, allDatabases, lockSystems, conns, wrote, begun>>

NextPredicate == CheckRow

SpecPredicate == InitPredicate /\ [][NextPredicate]_vars

\* result.sort(key=itemgetter(index)) of Connection.select: list.sort is
\* stable and ascending, and compares keys with <.  Python raises TypeError
\* on None < anything and on an ordering of a text with a number; a sort of
\* two or more rows compares every key with another one and compares the
\* keys of every two rows that end up next to each other, so it raises as
\* soon as two of the keys cannot be ordered.
SortRaises(result, index) ==
    \E j, k \in 1..Len(result) : j # k /\ ~Comparable(result[j][index], result[k][index])

RECURSIVE sort_by(_, _, _)
sort_by(result, index, n) ==
    IF n = 0 THEN <<>>
    ELSE LET sorted == sort_by(result, index, n - 1)
             record == result[n]
             at == Cardinality({j \in 1..Len(sorted) : sorted[j][index].v <= record[index].v})
         IN SubSeq(sorted, 1, at) \o <<record>> \o SubSeq(sorted, at + 1, Len(sorted))

\* Connection.select(table, ["*"], None, None, [column]): every row is
\* retained, the retained rows are sorted, and `*` extends each record by
\* all its cells; an empty record is left out.
select_order_by(table, column) ==
    LET index == get_column_index(table, column)
    IN IF SortRaises(table.rows, index)
       THEN [outcome |-> "TypeError", result |-> <<>>]
       ELSE [outcome |-> "ok",
             result |-> SelectSeq(sort_by(table.rows, index, Len(table.rows)),
                                  LAMBDA r : Len(r) # 0)]

\* Connection.select on its own over a table (x INTEGER, y TEXT) holding
\* any rows INSERT stores in it, in any insertion order.  The record of a
\* call names the ORDER BY column and carries the rows returned.
OrderRows ==
    {<<x, y>> : x \in {NullV} \cup {IntV(n) : n \in 0..MaxVal},
                y \in {NullV} \cup {TextV(n) : n \in 0..MaxVal}}
OrderTables ==
    {InsertAll(NewTable(RowTable, XYColumns), rows, Len(rows)) :
        rows \in UNION {[1..k -> OrderRows] : k \in 0..(MaxRows + 2)}}

InitOrder ==
    /\ heap \in {[id \in {0} |-> PutTable(NewDatabase(LockFile), table)] : table \in OrderTables}
    /\ allDatabases = [f \in {LockFile} |-> 0]
    /\ lockSystems = [f \in {LockFile} |-> NewLockSystem]
    /\ conns = [c \in Conns |-> NewConnection]
    /\ last = [conn |-> 0, op |-> "", name |-> "", outcome |-> "", result |-> <<>>]
    /\ wrote = [c \in Conns |-> FALSE]
    /\ begun = [c \in Conns |-> NoSnapshot]

SelectOrderBy ==
    \E column \in {XCol, YCol} :
        \E r \in {select_order_by(GetTable(heap[0], RowTable), column)} :
            /\ last' = [conn |-> 0, op |-> "SELECT ORDER BY", name |-> column,
                        outcome |-> r.outcome, result |-> r.result]
            /\ UNCHANGED <<heap, allDatabases, lockSystems, conns, wrote, begun>>

NextOrder == SelectOrderBy

SpecOrder == InitOrder /\ [][NextOrder]_vars

\* The materialization of a LEFT OUTER JOIN on its own: the left table
\* RowTable and the right table RightTable, both (x INTEGER, y TEXT), hold
\* any rows INSERT stores in them, which includes rows of fewer cells than
\* the schema has columns.  The record of a call carries the rows returned.
RightTable == "u"
JoinEntries ==
    UNION {[1..k -> {NullV} \cup {IntV(n) : n \in Values} \cup {TextV(n) : n \in Values}] :
               k \in 1..Len(XYColumns)}
JoinTables(table_name) ==
    {InsertAll(NewTable(table_name, XYColumns), entries, Len(entries)) :
        entries \in UNION {[1..k -> JoinEntries] : k \in 0..(MaxRows + 1)}}

InitJoinRows ==
    /\ heap \in {[id \in {0} |-> PutTable(PutTable(NewDatabase(LockFile), table1), table2)] :
                     table1 \in JoinTables(RowTable), table2 \in JoinTables(RightTable)}
    /\ allDatabases = [f \in {LockFile} |-> 0]
    /\ lockSystems = [f \in {LockFile} |-> NewLockSystem]
    /\ conns = [c \in Conns |-> NewConnection]
    /\ last = [conn |-> 0, op |-> "", name |-> "", outcome |-> "", result |-> <<>>]
    /\ wrote = [c \in Conns |-> FALSE]
    /\ begun = [c \in Conns |-> NoSnapshot]

\* SELECT * FROM RowTable LEFT OUTER JOIN RightTable ON RowTable.x = RightTable.x;
MaterializeJoin ==
    \E joined_table \in {JoinTable(GetTable(heap[0], RowTable), GetTable(heap[0], RightTable))} :
        /\ heap[0].joined_table # <<joined_table>>
        /\ heap' = [heap EXCEPT ![0].joined_table = <<joined_table>>]
        /\ last' = [conn |-> 0, op |-> "JOIN", name |-> RowTable, outcome |-> "ok",
                    result |-> select(joined_table)]
        /\ UNCHANGED <<allDatabases, lockSystems, conns, wrote, begun>>

NextJoinRows == MaterializeJoin

SpecJoinRows == InitJoinRows /\ [][NextJoinRows]_vars

\* The WHERE clause of a DELETE or an UPDATE is no condition, <<>>, or one
\* condition <<[column, op, value]>>; the value of IS and IS NOT is None.
\* row.check_row(column_name, column_index, op, value) reads
\* self.data[column_index] first, an IndexError on a row that short.
RowCheck(table, row, condition) ==
    IF Len(row) < get_column_index(table, condition.column) THEN "IndexError"
    ELSE check_row(row[get_column_index(table, condition.column)], condition.op, condition.value)

\* The loop `for row in table.rows: if row.check_row(...)` ends with the
\* error of the first row that raises one; otherwise it collects the rows
\* for which check_row returned True.
ChecksRaising(table, condition) ==
    {i \in 1..Len(table.rows) : RowCheck(table, table.rows[i], condition) \notin {"True", "False"}}
FirstRaised(table, condition) ==
    RowCheck(table,
             table.rows[CHOOSE i \in ChecksRaising(table, condition) :
                            \A j \in ChecksRaising(table, condition) : i <= j],
             condition)
Checked(table, condition) ==
    {i \in 1..Len(table.rows) : RowCheck(table, table.rows[i], condition) = "True"}

\* Row.__eq__: the sizes and the data tuples are equal.
RowEq(row, other) ==
    Len(row) = Len(other) /\ \A i \in 1..Len(row) : PyEq(row[i], other[i])

\* Table.remove_row(row) removes the first record equal to row.
remove_row(table, row) ==
    IF table.size = 0 \/ ~\E i \in 1..Len(table.rows) : RowEq(row, table.rows[i]) THEN table
    ELSE LET at == CHOOSE i \in 1..Len(table.rows) :
                       /\ RowEq(row, table.rows[i])
                       /\ \A j \in 1..(i - 1) : ~RowEq(row, table.rows[j])
         IN [table EXCEPT !.rows = SubSeq(@, 1, at - 1) \o SubSeq(@, at + 1, Len(@)),
                          !.size = @ - 1]

RECURSIVE RemoveRows(_, _, _)
RemoveRows(table, rows_to_remove, n) ==
    IF n = 0 THEN table
    ELSE remove_row(RemoveRows(table, rows_to_remove, n - 1), rows_to_remove[n])

\* Connection.delete_from(table_name, conditions) on the table itself: what
\* it raises, if anything, and the table it leaves.
delete_where(table, conditions) ==
    IF table.size = 0 THEN [outcome |-> "ok", table |-> table]
    ELSE IF conditions = <<>>
    THEN [outcome |-> "ok", table |-> [table EXCEPT !.rows = <<>>, !.size = 0]]
    ELSE IF ChecksRaising(table, conditions[1]) # {}
    THEN [outcome |-> FirstRaised(table, conditions[1]), table |-> table]
    ELSE LET rows_to_remove == SelectSeq(table.rows,
                                   LAMBDA row : RowCheck(table, row, conditions[1]) = "True")
         IN [outcome |-> "ok",
             table |-> RemoveRows(table, rows_to_remove, Len(rows_to_remove))]

\* Connection.update_table(table, [[column, value]], conditions): the rows
\* to update are collected first; update_row raises IndexError on the
\* first of them that is too short, the rows before it being updated.
update_where(table, column, value, conditions) ==
    IF table.size = 0 THEN [outcome |-> "ok", table |-> table]
    ELSE IF conditions = <<>>
    THEN [outcome |-> IF UpdateRaises(table, column) THEN "IndexError" ELSE "ok",
          table |-> update_table(table, column, value)]
    ELSE IF ChecksRaising(table, conditions[1]) # {}
    THEN [outcome |-> FirstRaised(table, conditions[1]), table |-> table]
    ELSE LET rows_to_update == Checked(table, conditions[1])
             short == rows_to_update \cap TooShort(table, column)
         IN [outcome |-> IF short # {} THEN "IndexError" ELSE "ok",
             table |-> [table EXCEPT !.rows =
                          [i \in 1..Len(@) |->
                              IF i \in rows_to_update /\ ~\E j \in short : j <= i
                              THEN update_row(@[i], get_column_index(table, column), value)
                              ELSE @[i]]]]

\* DELETE and UPDATE on their own over a table (x INTEGER, y TEXT) holding
\* any rows INSERT stores in it.  The record of a call carries the WHERE
\* clause and the assignment of the SET clause.
WhereEntries ==
    UNION {[1..k -> {NullV} \cup {IntV(n) : n \in 0..MaxVal} \cup {TextV(MaxVal)}] :
               k \in 1..Len(XYColumns)}
WhereTables ==
    {InsertAll(NewTable(RowTable, XYColumns), entries, Len(entries)) :
        entries \in UNION {[1..k -> WhereEntries] : k \in 0..(MaxRows + 2)}}
WhereConditions ==
    {<<>>}
    \cup {<<[column |-> column, op |-> op, value |-> NullV]>> :
              column \in {XCol, YCol}, op \in {"IS", "IS NOT"}}
    \cup {<<[column |-> XCol, op |-> op, value |-> value]>> :
              op \in {"=", "<"}, value \in {NullV} \cup {IntV(n) : n \in 0..MaxVal}}
    \cup {<<[column |-> YCol, op |-> op, value |-> value]>> :
              op \in {"=", "<"}, value \in {NullV, TextV(MaxVal)}}
SetPairs ==
    {[column |-> XCol, value |-> IntV(MaxVal)], [column |-> XCol, value |-> NullV],
     [column |-> YCol, value |-> TextV(MaxVal)]}

InitWhere ==
    /\ heap \in {[id \in {0} |-> PutTable(NewDatabase(LockFile), table)] : table \in WhereTables}
    /\ allDatabases = [f \in {LockFile} |-> 0]
    /\ lockSystems = [f \in {LockFile} |-> NewLockSystem]
    /\ conns = [c \in Conns |-> NewConnection]
    /\ last = [conn |-> 0, op |-> "", name |-> "", outcome |-> "", result |-> <<>>]
    /\ wrote = [c \in Conns |-> FALSE]
    /\ begun = [c \in Conns |-> NoSnapshot]

DeleteWhere ==
    \E conditions \in WhereConditions :
        \E r \in {delete_where(GetTable(heap[0], RowTable), conditions)} :
            /\ heap' = [heap EXCEPT ![0] = PutTable(@, r.table)]
            /\ last' = [conn |-> 0, op |-> "DELETE", name |-> RowTable,
                        outcome |-> r.outcome, result |-> <<conditions, <<>>>>]
            /\ UNCHANGED <<allDatabases, lockSystems, conns, wrote, begun>>

UpdateWhere ==
    \E conditions \in WhereConditions, pair \in SetPairs :
        \E r \in {update_where(GetTable(heap[0], RowTable), pair.column, pair.value,
                                conditions)} :
            /\ heap' = [heap EXCEPT ![0] = PutTable(@, r.table)]
            /\ last' = [conn |-> 0, op |-> "UPDATE", name |-> RowTable,
                        outcome |-> r.outcome, result |-> <<conditions, <<pair>>>>]
            /\ UNCHANGED <<allDatabases, lockSystems, conns, wrote, begun>>

NextWhere == DeleteWhere \/ UpdateWhere

SpecWhere == InitWhere /\ [][NextWhere]_vars

\* write_rows(row, column_names): dict(zip(column_names, row.data)).
write_rows(row, column_names) ==
    [i \in 1..Min(Len(column_names), Len(row)) |-> [k |-> column_names[i], v |-> row[i]]]

\* write_json_file(filename, data): the JSON document written, or the error
\* raised.  data.joined_table.name is read whenever the slot is not None,
\* an AttributeError when the slot holds a str.
write_json_file(data) ==
    IF data.joined_table # <<>> /\ data.joined_table[1].kind = "str"
    THEN [outcome |-> "AttributeError", json |-> <<>>]
    ELSE [outcome |-> "ok",
          json |-> <<[name |-> data.name,
                      joined_table |-> IF data.joined_table = <<>> THEN <<>>
                                       ELSE <<data.joined_table[1].name>>,
                      size |-> data.size,
                      tables |-> [i \in 1..Len(data.tables) |->
                                    LET table == data.tables[i].v
                                    IN [name |-> table.name,
                                        default_values |-> table.default_values,
                                        schema |-> <<table.schema>>,
                                        rows |-> [j \in 1..Len(table.rows) |->
                                                    write_rows(table.rows[j],
                                                               table.column_names)]]]]>>]

\* read_json_file(filename) of a document json_list: every entry of
\* "tables" becomes a Table, a view included, and the joined_table slot
\* holds the name that was written, a str.
LoadedTable(table) ==
    [NewTable(table.name, <<>>)
        EXCEPT !.schema = table.schema[1],
               !.column_names = DictKeys(table.schema[1]),
               !.default_values = table.default_values,
               !.column_size = Len(table.schema[1]),
               !.rows = [j \in 1..Len(table.rows) |-> DictValues(table.rows[j])],
               !.size = Len(table.rows)]

RECURSIVE LoadedTables(_, _)
LoadedTables(tables, n) ==
    IF n = 0 THEN <<>>
    ELSE DictPut(LoadedTables(tables, n - 1), tables[n].name, LoadedTable(tables[n]))

read_json_file(json_list) ==
    [name |-> json_list.name,
     size |-> json_list.size,
     tables |-> LoadedTables(json_list.tables, Len(json_list.tables)),
     joined_table |-> IF json_list.joined_table = <<>> THEN <<>>
                      ELSE <<[kind |-> "str", name |-> json_list.joined_table[1]]>>]

\* Connection.close(): write_json_file(self.filename, self.database).  The
\* record of the call carries the document written.
ExecClose(w, c) ==
    LET written == write_json_file(WorkingDb(w, c))
    IN IF written.outcome = "ok" THEN Return(w, written.json) ELSE Raise(w, written.outcome)

Close(c) ==
    /\ conns[c].open
    /\ \E r \in {ExecClose(World, c)} : Step(c, Stmt("CLOSE", conns[c].filename, "", 0, FALSE), r)

\* Auto-commit statements over tables, views and joins, and close().
NextPersist ==
    \/ \E c \in Conns : Connect(c)
    \/ \E c \in Conns : CreateTable(c)
    \/ \E c \in Conns : CreateView(c)
    \/ \E c \in Conns : Insert(c)
    \/ \E c \in Conns : JoinSelect(c)
    \/ \E c \in Conns : Close(c)

SpecPersist == Init /\ [][NextPersist]_vars

\* The tokenizer.  A query is a sequence of characters; a token is a str
\* (a word, a punctuation mark, an operator, a text), an int or a float
\* with the literal it was converted from, or None.
Whitespace == {" "}
Letters == {"E", "N", "U", "L", "_"}
Digits == {"0", "1"}
StrToken(s) == [ty |-> "str", s |-> s]

\* collect_characters(query, allowed_characters)
collect_characters(query, allowed_characters) ==
    SubSeq(query, 1,
           CHOOSE n \in 0..Len(query) :
               /\ \A i \in 1..n : query[i] \in allowed_characters
               /\ n < Len(query) => query[n + 1] \notin allowed_characters)

Drop(query, n) == SubSeq(query, n + 1, Len(query))

\* remove_word(query, tokens)
remove_word(query, tokens) ==
    LET word == collect_characters(query, Letters \cup {".", "*"} \cup Digits)
    IN [outcome |-> "running", query |-> Drop(query, Len(word)),
        tokens |-> Append(tokens, IF word = <<"N", "U", "L", "L">>
                                  THEN [ty |-> "None", s |-> <<>>]
                                  ELSE StrToken(word))]

\* str.find(sub, start) with positions counted from 1, 0 when not found.
Find(s, sub, start) ==
    LET at == {i \in start..(Len(s) - Len(sub) + 1) : SubSeq(s, i, i + Len(sub) - 1) = sub}
    IN IF at = {} THEN 0 ELSE CHOOSE i \in at : \A j \in at : i <= j

\* The loop of remove_text that moves the closing quote past doubled quotes.
RECURSIVE EndQuote(_, _, _)
EndQuote(query, end_quote_index, escape_index) ==
    IF escape_index = end_quote_index /\ escape_index # 0
    THEN EndQuote(query, Find(query, <<"'">>, escape_index + 2),
                  Find(query, <<"'", "'">>, escape_index + 2))
    ELSE end_quote_index

\* str.replace("''", "'")
RECURSIVE Unescape(_)
Unescape(text) ==
    IF Len(text) >= 2 /\ text[1] = "'" /\ text[2] = "'" THEN <<"'">> \o Unescape(Drop(text, 2))
    ELSE IF text = <<>> THEN <<>>
    ELSE <<text[1]>> \o Unescape(Tail(text))

\* remove_text(query, tokens): without a closing quote find gives -1, the
\* text is query[:-1] and the rest is query[0:].
remove_text(query, tokens) ==
    LET rest == Tail(query)
        end_quote_index == EndQuote(rest, Find(rest, <<"'">>, 1), Find(rest, <<"'", "'">>, 1))
        text == IF end_quote_index = 0 THEN SubSeq(rest, 1, Len(rest) - 1)
                ELSE SubSeq(rest, 1, end_quote_index - 1)
    IN [outcome |-> "running",
        query |-> IF end_quote_index = 0 THEN rest ELSE Drop(rest, end_quote_index),
        tokens |-> Append(tokens, StrToken(Unescape(text)))]

\* The literals int() and float() convert; any other raises ValueError.
IsDigits(s) == s # <<>> /\ \A i \in 1..Len(s) : s[i] \in Digits
Unsigned(s) == IF s # <<>> /\ s[1] = "-" THEN Tail(s) ELSE s
IntLiteral(s) == IsDigits(Unsigned(s))
Mantissa(s) ==
    /\ \A i \in 1..Len(s) : s[i] \in Digits \cup {"."}
    /\ Cardinality({i \in 1..Len(s) : s[i] = "."}) <= 1
    /\ \E i \in 1..Len(s) : s[i] \in Digits
FloatLiteral(s) ==
    LET e == Find(Unsigned(s), <<"E">>, 1)
    IN IF e = 0 THEN Mantissa(Unsigned(s))
       ELSE /\ Mantissa(SubSeq(Unsigned(s), 1, e - 1))
            /\ IntLiteral(Drop(Unsigned(s), e))

\* remove_num(query, tokens)
remove_num(query, tokens) ==
    LET number == collect_characters(query, Digits \cup {"-", ".", "E"})
        is_float == \E i \in 1..Len(number) : number[i] = "."
    IN IF (is_float /\ ~FloatLiteral(number)) \/ (~is_float /\ ~IntLiteral(number))
       THEN [outcome |-> "ValueError", query |-> query, tokens |-> tokens]
       ELSE [outcome |-> "running", query |-> Drop(query, Len(number)),
             tokens |-> Append(tokens, [ty |-> IF is_float THEN "float" ELSE "int",
                                        s |-> number])]

\* The operator branch of tokenize: tokens[-1] of an empty list is an
\* IndexError, len() of a number or of None a TypeError; `last_token in
\* "!>"` holds for "!", ">" and the empty text.
remove_operator(query, tokens) ==
    IF tokens = <<>> THEN [outcome |-> "IndexError", query |-> query, tokens |-> tokens]
    ELSE IF tokens[Len(tokens)].ty # "str"
    THEN [outcome |-> "TypeError", query |-> query, tokens |-> tokens]
    ELSE LET last_token == tokens[Len(tokens)].s
         IN IF /\ Len(last_token) < 2
               /\ \/ last_token \in {<<>>, <<"!">>, <<">">>} /\ query[1] = "="
                  \/ last_token = <<"=">> /\ query[1] = "<"
            THEN [outcome |-> "running", query |-> Tail(query),
                  tokens |-> [tokens EXCEPT ![Len(tokens)] =
                                 StrToken(Append(last_token, query[1]))]]
            ELSE [outcome |-> "running", query |-> Tail(query),
                  tokens |-> Append(tokens, StrToken(<<query[1]>>))]

\* One iteration of the loop of tokenize on a query that is not empty.
Iteration(query, tokens) ==
    IF query[1] \in Whitespace
    THEN [outcome |-> "running",
          query |-> Drop(query, Len(collect_characters(query, Whitespace))),
          tokens |-> tokens]
    ELSE IF query[1] \in Letters THEN remove_word(query, tokens)
    ELSE IF query[1] \in {"(", ")", ",", ";", "*"}
    THEN [outcome |-> "running", query |-> Tail(query),
          tokens |-> Append(tokens, StrToken(<<query[1]>>))]
    ELSE IF query[1] = "'" THEN remove_text(query, tokens)
    ELSE IF query[1] \in Digits \cup {"-"} THEN remove_num(query, tokens)
    ELSE IF query[1] \in {"<", ">", "=", "!"} THEN remove_operator(query, tokens)
    ELSE [outcome |-> "AssertionError", query |-> query, tokens |-> tokens]

\* tokenize on its own, one loop iteration per step, on every query of at
\* most MaxQuery characters.  The record of the call carries the input as
\* its name and the remaining query and the tokens as its result; the
\* outcome is "running" inside the loop, "ok" once the tokens are returned.
MaxQuery == 4
QueryChars == {"E", "1", "-", ".", "'", "=", "<", ">", "!", " ", ";", "#"}
Queries == UNION {[1..k -> QueryChars] : k \in 0..MaxQuery}

InitTokenize ==
    /\ heap = <<>>
    /\ allDatabases = <<>>
    /\ lockSystems = <<>>
    /\ conns = [c \in Conns |-> NewConnection]
    /\ last \in {[conn |-> 0, op |-> "tokenize", name |-> query, outcome |-> "running",
                   result |-> <<query, <<>>>>] : query \in Queries}
    /\ wrote = [c \in Conns |-> FALSE]
    /\ begun = [c \in Conns |-> NoSnapshot]

TokenizeLoop ==
    /\ last.outcome = "running"
    /\ last.result[1] # <<>>
    /\ \E r \in {Iteration(last.result[1], last.result[2])} :
          last' = [last EXCEPT !.outcome = r.outcome, !.result = <<r.query, r.tokens>>]
    /\ UNCHANGED <<heap, allDatabases, lockSystems, conns, wrote, begun>>

TokenizeReturn ==
    /\ last.outcome = "running"
    /\ last.result[1] = <<>>
    /\ last' = [last EXCEPT !.outcome = "ok"]
    /\ UNCHANGED <<heap, allDatabases, lockSystems, conns, wrote, begun>>

NextTokenize == TokenizeLoop \/ TokenizeReturn

SpecTokenize == InitTokenize /\ [][NextTokenize]_vars

\* Auto-commit write statements, a whole statement at a time, over a table
\* (x INTEGER, y TEXT): an INSERT lists one or two entries, each of them a
\* row of one value, a row of two values or an entry that insert_row drops,
\* so that it stores two rows, one row or none; an UPDATE sets y to NULL,
\* and raises IndexError at the first row that is too short after it updated
\* the rows before it; a SELECT of a missing table leaves the shared lock
\* behind, so that writes of the other connection are refused.  A table
\* holds at most MaxEntries rows.
MaxEntries == 2
AtomicCells == {NullV}
AtomicEntries ==
    UNION {{<<IntV(n)>>, <<IntV(n), TextV(n)>>, <<TextV(n)>>} : n \in Values}
AtomicEntryLists == UNION {[1..k -> AtomicEntries] : k \in 1..MaxEntries}

\* INSERT INTO name VALUES (entry), (entry), ...;  positional.
ExecInsertEntries_first_only(w, c, table_name, entries) ==
    LET r == lock_check(w, c, "write")
    IN
    IF ~r.ok THEN Raise(r.w, "lock-conflict")
    ELSE IF ~HasTable(WorkingDb(r.w, c), table_name) THEN Raise(r.w, "missing-table")
    ELSE LET db == WorkingDb(r.w, c)
             table == InsertAll(GetTable(db, table_name), entries, 1)
         IN CommitIfAuto(MutateDb(r.w, c, PutTable(db, table)), c)

ExecInsertEntries(w, c, table_name, entries) ==
    LET r == lock_check(w, c, "write")
    IN
    IF ~r.ok THEN Raise(r.w, "lock-conflict")
    ELSE IF ~HasTable(WorkingDb(r.w, c), table_name) THEN Raise(r.w, "missing-table")
    ELSE LET db == WorkingDb(r.w, c)
             table == InsertAll(GetTable(db, table_name), entries, Len(entries))
         IN CommitIfAuto(MutateDb(r.w, c, PutTable(db, table)), c)

\* The record of an auto-commit statement of connection c.
AutoStep(c, stmt, r) ==
    \E w2 \in {Canon(r.w)} :
        /\ \A id \in DOMAIN w2.heap : \A i \in 1..Len(w2.heap[id].tables) :
               Len(w2.heap[id].tables[i].v.rows) <= MaxEntries
        /\ \A f \in DOMAIN w2.ls : w2.ls[f].shared <= MaxShared
        /\ heap' = w2.heap
        /\ allDatabases' = w2.all
        /\ lockSystems' = w2.ls
        /\ conns' = w2.cn
        /\ last' = [conn |-> c, op |-> stmt.op, name |-> stmt.name,
                    outcome |-> r.outcome, result |-> r.result]
        /\ UNCHANGED <<wrote, begun>>

AutoCreateTable(c) ==
    /\ conns[c].open
    /\ \E n \in TableNames, g \in BOOLEAN :
        \E r \in {ExecCreateTableOf(World, c, n, g, XYColumns)} :
            AutoStep(c, Stmt("CREATE TABLE", n, "", 0, g), r)

AutoInsert(c) ==
    /\ conns[c].open
    /\ \E n \in TableNames, entries \in AtomicEntryLists :
        \E r \in {ExecInsertEntries(World, c, n, entries)} :
            AutoStep(c, Stmt("INSERT", n, "", 0, FALSE),
                     [r EXCEPT !.result = entries])

AutoUpdate(c) ==
    /\ conns[c].open
    /\ \E n \in TableNames, column \in {YCol}, value \in AtomicCells :
        \E r \in {ExecUpdateTo(World, c, n, column, value)} :
            AutoStep(c, Stmt("UPDATE", n, "", 0, FALSE),
                     [r EXCEPT !.result = <<column, value>>])

AutoDelete(c) ==
    /\ conns[c].open
    /\ \E n \in TableNames :
        \E r \in {ExecDelete(World, c, n)} :
            AutoStep(c, Stmt("DELETE", n, "", 0, FALSE), r)

AutoSelect(c) ==
    /\ conns[c].open
    /\ \E n \in TableNames :
        \E r \in {ExecSelect(World, c, n)} : AutoStep(c, SelectStmt(n), r)

NextAtomic ==
    \/ \E c \in Conns : Connect(c)
    \/ \E c \in Conns : AutoCreateTable(c)
    \/ \E c \in Conns : AutoInsert(c)
    \/ \E c \in Conns : AutoUpdate(c)
    \/ \E c \in Conns : AutoDelete(c)
    \/ \E c \in Conns : AutoSelect(c)

SpecAtomic == Init /\ [][NextAtomic]_vars

\* Transactions, auto-commit statements and close(): what a connection
\* writes to its file when it closes inside a transaction, after it, and
\* after the other connection published.
NextClose ==
    \/ \E c \in Conns : Connect(c)
    \/ \E c \in Conns : Begin(c)
    \/ \E c \in Conns : Commit(c)
    \/ \E c \in Conns : CreateTable(c)
    \/ \E c \in Conns : Insert(c)
    \/ \E c \in Conns : Close(c)

SpecClose == Init /\ [][NextClose]_vars

\* LockSystem.add_lock on its own: the counters start anywhere in Counts,
\* and every call requests one of the three locks on behalf of a holder of
\* any lock or of none.  The record of a call names the lock requested and
\* carries the lock currently held as its result.
LockTypes == {"shared", "reserved", "exclusive"}
Counts == 0..MaxShared

InitLocks ==
    /\ heap = <<>>
    /\ allDatabases = <<>>
    /\ lockSystems \in [{LockFile} -> [shared : Counts, reserved : Counts, exclusive : Counts]]
    /\ conns = [c \in Conns |-> NewConnection]
    /\ last = [conn |-> 0, op |-> "", name |-> "", outcome |-> "", result |-> <<>>]
    /\ wrote = [c \in Conns |-> FALSE]
    /\ begun = [c \in Conns |-> NoSnapshot]

AddLock ==
    \E lock_type \in LockTypes, current_lock \in LockTypes \cup {None} :
        \E r \in {add_lock(lockSystems[LockFile], lock_type, current_lock)} :
            /\ lockSystems[LockFile].shared <= MaxShared
            /\ lockSystems' = [lockSystems EXCEPT ![LockFile] = r.ls]
            /\ last' = [conn |-> 0, op |-> "add_lock", name |-> lock_type,
                        outcome |-> IF r.ok THEN "ok" ELSE "lock-conflict",
                        result |-> <<current_lock>>]
            /\ UNCHANGED <<heap, allDatabases, conns, wrote, begun>>

NextLocks == AddLock

SpecLocks == InitLocks /\ [][NextLocks]_vars

TypeOK ==
    /\ \A f \in DOMAIN allDatabases : allDatabases[f] \in DOMAIN heap
    /\ \A c \in Conns : conns[c].open => conns[c].database \in DOMAIN heap

\* ------------------------------------------------------------- properties
\* The committed database of a file, and what a SELECT * FROM name returns
\* when it is evaluated against the database value db.
CommittedDb(f) == heap[allDatabases[f]]
RowsIn(db, name) ==
    IF GetTable(db, name).kind = "View"
    THEN select(GetTable(db, GetTable(db, name).statement.name))
    ELSE select(GetTable(db, name))
Selectable(db, name) ==
    /\ HasTable(db, name)
    /\ GetTable(db, name).kind = "View" => HasTable(db, GetTable(db, name).statement.name)
WriteIntent == {"reserved", "exclusive"}
SameFile(c, d) ==
    c # d /\ conns[c].open /\ conns[d].open /\ conns[c].filename = conns[d].filename
\* The counters after the lock lk was given back.
Without(L, lk) ==
    [shared |-> IF lk = "shared" THEN L.shared - 1 ELSE L.shared,
     reserved |-> IF lk = "reserved" THEN L.reserved - 1 ELSE L.reserved,
     exclusive |-> IF lk = "exclusive" THEN L.exclusive - 1 ELSE L.exclusive]

\* C1: in every reachable state the counters of every lock manager satisfy
\* shared >= 0, reserved in {0,1}, exclusive in {0,1}, and exclusive = 1
\* implies shared = 0 and reserved = 0.
C1_CounterRanges ==
    \A f \in DOMAIN lockSystems :
        /\ lockSystems[f].shared >= 0
        /\ lockSystems[f].reserved \in {0, 1}
        /\ lockSystems[f].exclusive \in {0, 1}
        /\ lockSystems[f].exclusive = 1 =>
              lockSystems[f].shared = 0 /\ lockSystems[f].reserved = 0

\* A reserved lock and a shared lock are out together and the last call was
\* refused a lock.
C1_Witness ==
    /\ last.outcome = "lock-conflict"
    /\ \E f \in DOMAIN lockSystems :
          lockSystems[f].reserved = 1 /\ lockSystems[f].shared >= 1

\* C2: at most one connection to a file holds reserved or exclusive, and
\* while a connection holds exclusive no other connection to the file holds
\* any lock.
C2_OneWriter ==
    \A c \in Conns, d \in Conns :
        SameFile(c, d) =>
            /\ ~(conns[c].transaction_lock \in WriteIntent
                    /\ conns[d].transaction_lock \in WriteIntent)
            /\ conns[c].transaction_lock = "exclusive" => conns[d].transaction_lock = None

\* A connection holds exclusive and another, inside its own transaction, was
\* just refused.
C2_Witness ==
    \E c \in Conns, d \in Conns :
        /\ SameFile(c, d)
        /\ conns[c].transaction_lock = "exclusive"
        /\ conns[d].transaction_mode = "DEFERRED"
        /\ last.conn = d
        /\ last.outcome = "lock-conflict"

\* C3: a write a connection executes inside its open transaction changes
\* neither the committed database nor any other connection's working
\* database, and a SELECT returns the rows of the selecting connection's own
\* working database (the committed one in auto-commit): the write is seen by
\* no other connection before it is published.
C3_TransactionWritesPrivate ==
    [][\A c \in Conns :
          /\ (/\ last'.conn = c
              /\ last'.op \in WriteOps
              /\ conns[c].open
              /\ conns[c].transaction_mode # None)
             => /\ \A f \in DOMAIN allDatabases :
                      heap'[allDatabases'[f]] = heap[allDatabases[f]]
                /\ \A d \in Conns \ {c} :
                      conns[d].open => heap'[conns'[d].database] = heap[conns[d].database]
          /\ (last'.conn = c /\ last'.op = "SELECT" /\ last'.outcome = "ok")
             => /\ Selectable(heap'[conns'[c].database], last'.name)
                /\ last'.result = RowsIn(heap'[conns'[c].database], last'.name)
                /\ conns[c].transaction_mode = None
                      => conns'[c].database = allDatabases'[conns'[c].filename]]_vars

\* A connection has inserted a row inside its transaction, and the SELECT
\* another connection just ran returned no row.
C3_Witness ==
    \E c \in Conns, d \in Conns :
        /\ SameFile(c, d)
        /\ conns[c].transaction_mode # None
        /\ wrote[c]
        /\ \E n \in TableNames :
              /\ HasTable(heap[conns[c].database], n)
              /\ select(GetTable(heap[conns[c].database], n)) # <<>>
              /\ last = [conn |-> d, op |-> "SELECT", name |-> n,
                         outcome |-> "ok", result |-> <<>>]

\* C4: the committed database changes only by publication: a call that is
\* neither a COMMIT that returns nor an auto-commit write that returns leaves
\* the committed database of every file as it was.
C4_CommittedNeverMutatedInPlace ==
    [][\A f \in DOMAIN allDatabases :
          heap'[allDatabases'[f]] # heap[allDatabases[f]]
          => /\ last'.outcome = "ok"
             /\ \/ last'.op = "COMMIT"
                \/ /\ last'.op \in WriteOps
                   /\ conns[last'.conn].transaction_mode = None]_vars

\* C5: a ROLLBACK that returns leaves the committed database as it was
\* immediately before the connection's BEGIN, when no other connection
\* published in between.
C5_RollbackRestoresCommitted ==
    [][\A c \in Conns :
          (/\ last'.conn = c
           /\ last'.op = "ROLLBACK"
           /\ last'.outcome = "ok"
           /\ begun[c].valid)
          => heap'[allDatabases'[conns[c].filename]] = begun[c].db]_vars

\* C6: while a connection whose BEGIN EXCLUSIVE returned is in its
\* transaction, holding the exclusive lock, every write statement of another
\* connection to the file raises lock-conflict.
C6_ExclusiveBlocksWriters ==
    \A a \in Conns, b \in Conns :
        (/\ SameFile(a, b)
         /\ conns[a].transaction_mode = "EXCLUSIVE"
         /\ conns[a].transaction_lock = "exclusive"
         /\ begun[a].valid
         /\ last.conn = b
         /\ last.op \in WriteOps)
        => last.outcome = "lock-conflict"

\* C7: a statement that returns in auto-commit mode leaves the connection
\* without a lock and the lock counters as they were before it.
C7_AutoCommitReleases ==
    [][\A c \in Conns :
          (/\ last'.conn = c
           /\ last'.op \in WriteOps \cup ReadOps
           /\ last'.outcome = "ok"
           /\ conns[c].open
           /\ conns[c].transaction_mode = None)
          => /\ conns'[c].transaction_lock = None
             /\ lockSystems' = lockSystems]_vars

\* C8: a SELECT that returns in auto-commit mode returns the rows the
\* committed database holds at the time of the call.
C8_AutoCommitSelectReadsCommitted ==
    [][\A c \in Conns :
          (/\ last'.conn = c
           /\ last'.op = "SELECT"
           /\ last'.outcome = "ok"
           /\ conns[c].open
           /\ conns[c].transaction_mode = None)
          => /\ Selectable(CommittedDb(conns[c].filename), last'.name)
             /\ last'.result = RowsIn(CommittedDb(conns[c].filename), last'.name)]_vars

\* An auto-commit SELECT returned a row while the object the connection
\* worked on before is another connection's.
C8_Witness ==
    \E c \in Conns, d \in Conns :
        /\ SameFile(c, d)
        /\ conns[c].transaction_mode = None
        /\ last.conn = c
        /\ last.op = "SELECT"
        /\ last.outcome = "ok"
        /\ last.result # <<>>
        /\ conns[d].transaction_mode = None
        /\ conns[d].database # allDatabases[conns[d].filename]

\* C9: a COMMIT that returns, of a transaction that executed a write without
\* error, makes the connection's snapshot the committed database.
C9_CommitPublishesWrites ==
    [][\A c \in Conns :
          (/\ last'.conn = c
           /\ last'.op = "COMMIT"
           /\ last'.outcome = "ok"
           /\ wrote[c])
          => heap'[allDatabases'[conns[c].filename]] = heap[conns[c].database]]_vars

\* C10: a COMMIT that returns leaves the connection in auto-commit mode with
\* no lock, the counters being those before less the lock it held; with no
\* lock held it changes neither the counters nor the committed database.
C10_CommitReleases ==
    [][\A c \in Conns :
          (last'.conn = c /\ last'.op = "COMMIT" /\ last'.outcome = "ok")
          => /\ conns'[c].transaction_mode = None
             /\ conns'[c].transaction_lock = None
             /\ lockSystems'[conns[c].filename] =
                   Without(lockSystems[conns[c].filename], conns[c].transaction_lock)
             /\ \A f \in DOMAIN lockSystems :
                   f # conns[c].filename => lockSystems'[f] = lockSystems[f]
             /\ conns[c].transaction_lock = None
                   => /\ lockSystems' = lockSystems
                      /\ heap'[allDatabases'[conns[c].filename]] =
                            heap[allDatabases[conns[c].filename]]]_vars

\* A COMMIT returned and published a table with a row, while another
\* connection is inside a transaction.
C10_Witness ==
    \E c \in Conns, d \in Conns :
        /\ SameFile(c, d)
        /\ last.conn = c
        /\ last.op = "COMMIT"
        /\ last.outcome = "ok"
        /\ conns[c].database = allDatabases[conns[c].filename]
        /\ conns[d].transaction_mode # None
        /\ \E n \in TableNames :
              /\ HasTable(CommittedDb(conns[c].filename), n)
              /\ select(GetTable(CommittedDb(conns[c].filename), n)) # <<>>

\* C11: a ROLLBACK of an open transaction leaves the connection with no
\* lock, in auto-commit mode and with the committed database object as its
\* working database; the counter of the lock it held went down by exactly
\* one, every other counter is as it was, and the committed database is
\* untouched.
C11_RollbackReleases ==
    [][\A c \in Conns :
          (last'.conn = c /\ last'.op = "ROLLBACK" /\ conns[c].transaction_mode # None)
          => /\ last'.outcome = "ok"
             /\ conns'[c].transaction_mode = None
             /\ conns'[c].transaction_lock = None
             /\ conns'[c].database = allDatabases'[conns[c].filename]
             /\ heap'[allDatabases'[conns[c].filename]] =
                   heap[allDatabases[conns[c].filename]]
             /\ lockSystems' =
                   [lockSystems EXCEPT ![conns[c].filename] =
                       Without(@, conns[c].transaction_lock)]]_vars

\* A ROLLBACK returned: the connection is back in auto-commit mode, the
\* committed database holds a table without rows, and the only lock left
\* is the shared lock of another connection of the file.
C11_Witness ==
    \E c \in Conns, d \in Conns :
        /\ SameFile(c, d)
        /\ last.conn = c
        /\ last.op = "ROLLBACK"
        /\ last.outcome = "ok"
        /\ conns[c].transaction_mode = None
        /\ conns[d].transaction_lock = "shared"
        /\ lockSystems[conns[c].filename] = [shared |-> 1, reserved |-> 0, exclusive |-> 0]
        /\ \E n \in TableNames :
              /\ HasTable(CommittedDb(conns[c].filename), n)
              /\ select(GetTable(CommittedDb(conns[c].filename), n)) = <<>>

\* C12: a BEGIN that returns leaves the connection in the mode it asked for
\* (DEFERRED for BEGIN TRANSACTION) holding no lock after DEFERRED, the
\* reserved lock after IMMEDIATE and the exclusive lock after EXCLUSIVE,
\* with the matching counter one higher; its working database is a new
\* object, shared with nobody, equal to the committed database as of BEGIN.
C12_BeginLocksAndCopies ==
    [][\A c \in Conns :
          (last'.conn = c /\ last'.op = "BEGIN" /\ last'.outcome = "ok")
          => LET f == conns[c].filename
                 L == lockSystems[f]
             IN /\ last'.name \in KnownModes
                /\ last'.name \in {"DEFERRED", "TRANSACTION"}
                      => /\ conns'[c].transaction_mode = "DEFERRED"
                         /\ conns'[c].transaction_lock = None
                         /\ lockSystems' = lockSystems
                /\ last'.name = "IMMEDIATE"
                      => /\ conns'[c].transaction_mode = "IMMEDIATE"
                         /\ conns'[c].transaction_lock = "reserved"
                         /\ lockSystems' = [lockSystems EXCEPT ![f] =
                                [L EXCEPT !.reserved = @ + 1]]
                /\ last'.name = "EXCLUSIVE"
                      => /\ conns'[c].transaction_mode = "EXCLUSIVE"
                         /\ conns'[c].transaction_lock = "exclusive"
                         /\ lockSystems' = [lockSystems EXCEPT ![f] =
                                [L EXCEPT !.exclusive = @ + 1]]
                /\ heap'[conns'[c].database] = heap[allDatabases[f]]
                /\ heap'[allDatabases'[f]] = heap[allDatabases[f]]
                /\ conns'[c].database # allDatabases'[f]
                /\ \A d \in Conns \ {c} : conns'[d].database # conns'[c].database]_vars

\* A BEGIN IMMEDIATE returned while another connection of the file holds a
\* shared lock: the reserved lock is held over a private copy of a committed
\* table with a row.
C12_Witness ==
    \E c \in Conns, d \in Conns :
        /\ SameFile(c, d)
        /\ last = [conn |-> c, op |-> "BEGIN", name |-> "IMMEDIATE",
                   outcome |-> "ok", result |-> <<>>]
        /\ conns[c].transaction_lock = "reserved"
        /\ conns[d].transaction_lock = "shared"
        /\ conns[c].database # allDatabases[conns[c].filename]
        /\ \E n \in TableNames :
              /\ HasTable(WorkingDb(World, c), n)
              /\ select(GetTable(WorkingDb(World, c), n)) # <<>>

\* C13: a BEGIN inside an open transaction, a COMMIT or a ROLLBACK outside
\* one and a BEGIN with a mode word execute does not know each raise the
\* transaction-state error, and a call that raised it changed nothing: the
\* connections (mode, lock, working database), the counters, the registry
\* and every database object are as before.
C13_TransactionStateErrors ==
    [][\A c \in Conns :
          /\ (/\ last'.conn = c
              /\ \/ last'.op = "BEGIN" /\ conns[c].transaction_mode # None
                 \/ last'.op = "BEGIN" /\ last'.name \notin KnownModes
                 \/ last'.op \in {"COMMIT", "ROLLBACK"} /\ conns[c].transaction_mode = None)
             => last'.outcome = "transaction-state"
          /\ (last'.conn = c /\ last'.outcome = "transaction-state")
             => /\ conns' = conns
                /\ lockSystems' = lockSystems
                /\ allDatabases' = allDatabases
                /\ heap' = heap]_vars

\* A BEGIN with an unknown mode word was refused to a connection in
\* auto-commit mode while another connection holds the reserved lock inside
\* a transaction that has written.
C13_Witness ==
    \E c \in Conns, d \in Conns :
        /\ SameFile(c, d)
        /\ last = [conn |-> c, op |-> "BEGIN", name |-> "BOGUS",
                   outcome |-> "transaction-state", result |-> <<>>]
        /\ conns[c].transaction_mode = None
        /\ conns[d].transaction_lock = "reserved"
        /\ wrote[d]

\* C14: when a COMMIT has returned and the same connection issues COMMIT
\* again as the very next call, the second COMMIT leaves the committed
\* database (the registry entry and the object's value) and every lock
\* counter as the first one left them.
C14_CommitIdempotent ==
    [][(/\ last.op = "COMMIT"
        /\ last.outcome = "ok"
        /\ last'.op = "COMMIT"
        /\ last'.conn = last.conn)
       => /\ lockSystems' = lockSystems
          /\ allDatabases' = allDatabases
          /\ \A f \in DOMAIN allDatabases :
                heap'[allDatabases'[f]] = heap[allDatabases[f]]]_vars

\* A COMMIT has just published a table with a row while another connection
\* holds a shared lock, and the committing connection can issue COMMIT again.
C14_Witness ==
    \E c \in Conns, d \in Conns :
        /\ SameFile(c, d)
        /\ last = [conn |-> c, op |-> "COMMIT", name |-> "",
                   outcome |-> "ok", result |-> <<>>]
        /\ conns[d].transaction_lock = "shared"
        /\ \E n \in TableNames :
              /\ HasTable(CommittedDb(conns[c].filename), n)
              /\ select(GetTable(CommittedDb(conns[c].filename), n)) # <<>>
        /\ ENABLED Commit(c)

\* C15: for every counter state and every requested lock other than the
\* lock currently held, add_lock follows the table.  shared: granted iff
\* exclusive = 0, and shared goes up by one.  reserved: granted iff
\* reserved = 0 and exclusive = 0; shared goes down by one when the caller
\* holds shared, and reserved goes up by one.  exclusive: granted iff
\* exclusive = 0, shared = 0 and (reserved = 0 or the caller holds reserved);
\* reserved goes down by one when it is the caller's held reserved lock that
\* the counter shows (reserved # 0), and exclusive goes up by one.  Every
\* other request raises lock-conflict and leaves the counters alone.
C15_AddLockTable ==
    [][last'.op = "add_lock" =>
        LET L == lockSystems[LockFile]
            L2 == lockSystems'[LockFile]
            requested == last'.name
            held == last'.result[1]
            granted == last'.outcome = "ok"
        IN requested # held =>
            /\ last'.outcome \in {"ok", "lock-conflict"}
            /\ requested = "shared" =>
                  /\ granted <=> L.exclusive = 0
                  /\ granted => L2 = [L EXCEPT !.shared = @ + 1]
            /\ requested = "reserved" =>
                  /\ granted <=> (L.reserved = 0 /\ L.exclusive = 0)
                  /\ granted => L2 = [L EXCEPT
                          !.shared = IF held = "shared" THEN @ - 1 ELSE @,
                          !.reserved = @ + 1]
            /\ requested = "exclusive" =>
                  /\ granted <=> /\ L.exclusive = 0
                                 /\ L.shared = 0
                                 /\ L.reserved = 0 \/ held = "reserved"
                  /\ granted => L2 = [L EXCEPT
                          !.reserved = IF held = "reserved" /\ L.reserved # 0
                                       THEN @ - 1 ELSE @,
                          !.exclusive = @ + 1]
            /\ ~granted => L2 = L]_vars

\* The holder of the reserved lock was granted the exclusive lock: reserved
\* went to 0 and exclusive to 1, with no reader.
C15_Witness ==
    /\ last = [conn |-> 0, op |-> "add_lock", name |-> "exclusive",
               outcome |-> "ok", result |-> <<"reserved">>]
    /\ lockSystems[LockFile] = [shared |-> 0, reserved |-> 0, exclusive |-> 1]

\* C16: add_lock for the lock the caller already holds returns True and
\* leaves every counter as it was, whatever the counters are.
C16_AddLockHeld ==
    [][(last'.op = "add_lock" /\ last'.name = last'.result[1])
       => /\ last'.outcome = "ok"
          /\ lockSystems' = lockSystems]_vars

\* The holder of the reserved lock asked for reserved again and got True
\* while the counters show another reserved lock and an exclusive lock, a
\* state in which add_reserved raises.
C16_Witness ==
    /\ last = [conn |-> 0, op |-> "add_lock", name |-> "reserved",
               outcome |-> "ok", result |-> <<"reserved">>]
    /\ lockSystems[LockFile].reserved = 2
    /\ lockSystems[LockFile].exclusive = 1

\* C17: inside a DEFERRED transaction a read by a connection without a lock
\* takes the shared lock (shared up by one) unless it is refused; a read by
\* a connection that holds a lock takes nothing and is never refused; a
\* write that is not refused leaves the connection with the reserved lock,
\* reserved up by one and shared down by one if it held shared, nothing
\* changed if it held reserved already; a refused statement changes no
\* lock; and no call but COMMIT or ROLLBACK ends the transaction or takes
\* the lock away.  (CREATE VIEW, a read followed by a write, is not one of
\* the statements meant.)
C17_DeferredLocks ==
    [][\A c \in Conns :
          (last'.conn = c /\ conns[c].transaction_mode = "DEFERRED")
          => LET f == conns[c].filename
                 L == lockSystems[f]
                 lk == conns[c].transaction_lock
                 refused == last'.outcome = "lock-conflict"
             IN /\ lk \in {None, "shared", "reserved"}
                /\ (last'.op \in ReadOps /\ lk = None) =>
                      /\ refused <=> L.exclusive # 0
                      /\ ~refused => /\ conns'[c].transaction_lock = "shared"
                                     /\ lockSystems' = [lockSystems EXCEPT ![f] =
                                            [L EXCEPT !.shared = @ + 1]]
                /\ (last'.op \in ReadOps /\ lk # None) =>
                      /\ ~refused
                      /\ conns'[c].transaction_lock = lk
                      /\ lockSystems' = lockSystems
                /\ (last'.op \in WriteOps \ {"CREATE VIEW"} /\ ~refused) =>
                      /\ conns'[c].transaction_lock = "reserved"
                      /\ lockSystems' = [lockSystems EXCEPT ![f] =
                            IF lk = "reserved" THEN L
                            ELSE [L EXCEPT
                                    !.shared = IF lk = "shared" THEN @ - 1 ELSE @,
                                    !.reserved = @ + 1]]
                /\ (last'.op \notin {"COMMIT", "ROLLBACK"} /\ refused) =>
                      /\ conns'[c].transaction_lock = lk
                      /\ lockSystems' = lockSystems
                /\ last'.op \notin {"COMMIT", "ROLLBACK"} =>
                      /\ conns'[c].transaction_mode = "DEFERRED"
                      /\ lk # None => conns'[c].transaction_lock # None]_vars

\* A SELECT returned inside a DEFERRED transaction that has written and
\* holds the reserved lock: the only shared lock counted is the one of the
\* other connection.
C17_Witness ==
    \E c \in Conns, d \in Conns :
        /\ SameFile(c, d)
        /\ last.conn = c
        /\ last.op = "SELECT"
        /\ last.outcome = "ok"
        /\ conns[c].transaction_mode = "DEFERRED"
        /\ conns[c].transaction_lock = "reserved"
        /\ wrote[c]
        /\ conns[d].transaction_lock = "shared"
        /\ lockSystems[conns[c].filename] = [shared |-> 1, reserved |-> 1, exclusive |-> 0]

C19_RowsMatchSchema ==
    last.outcome = "ok" =>
        \A id \in DOMAIN heap : \A i \in 1..Len(heap[id].tables) :
            LET table == heap[id].tables[i].v
            IN /\ table.size = Len(table.rows)
               /\ \A j \in 1..Len(table.rows) : Len(table.rows[j]) = Len(table.schema)

\* C20: after every statement that returned, every cell of every row of
\* every table is null or of a dynamic type its column's tag accepts.
C20_CellsMatchTypes ==
    last.outcome = "ok" =>
        \A id \in DOMAIN heap : \A i \in 1..Len(heap[id].tables) :
            LET table == heap[id].tables[i].v
                types == DictValues(table.schema)
            IN \A j \in 1..Len(table.rows) :
                  \A k \in 1..Min(Len(table.rows[j]), Len(types)) :
                      TypeAccepts(table.rows[j][k], types[k])

\* The acceptance rule as the specification words it: a value passes when
\* it is null, when its column is BLOB or has no type tag, or when its type
\* is the column's TEXT / INTEGER / REAL tag.
Acceptable(value, tag) ==
    \/ value.ty = "NULL"
    \/ tag \in {"BLOB", None}
    \/ tag \in {"TEXT", "INTEGER", "REAL"} /\ value.ty = tag
EntryPasses(entry, table) ==
    /\ Len(entry) <= Len(table.schema)
    /\ \A k \in 1..Len(entry) : Acceptable(entry[k], table.schema[k].v)

\* C21: an INSERT never raises; when an entry of its VALUES list is longer
\* than the schema or holds a value that fails its column's type check the
\* table has the same rows afterwards as before; and when every entry
\* passes (null, BLOB or untyped column, or matching TEXT / INTEGER / REAL)
\* every entry is stored, in order, after the rows that were there.
C21_InsertDropsOrAccepts ==
    [][last'.op = "INSERT" =>
        LET table == GetTable(heap[0], RowTable)
            after == GetTable(heap'[0], RowTable)
            entries == last'.result
        IN /\ last'.outcome = "ok"
           /\ (\E i \in 1..Len(entries) : ~EntryPasses(entries[i], table))
                 => after.rows = table.rows
           /\ (\A i \in 1..Len(entries) : EntryPasses(entries[i], table))
                 => after.rows = table.rows \o entries]_vars

\* C22: check_row, for every cell and operand.  IS with the null operand
\* matches iff the cell is null and IS NOT iff it is not (0, 0.0 and the
\* empty text are not null); a comparison operator with a null cell or a
\* null operand gives False; between two numbers or two texts it gives the
\* natural comparison; an operator that is none of these gives False.
C22_PredicateEvaluation ==
    [][last'.op = "check_row" =>
        LET cell == last'.result[1]
            value == last'.result[2]
            op == last'.name
            matched == last'.outcome
        IN /\ (op = "IS" /\ value = NullV) => matched = PyBool(cell = NullV)
           /\ (op = "IS NOT" /\ value = NullV) => matched = PyBool(cell # NullV)
           /\ (op \in CompareOps /\ (cell = NullV \/ value = NullV)) => matched = "False"
           /\ (op \in CompareOps /\ cell # NullV /\ value # NullV /\ Comparable(cell, value))
                 => matched = PyBool(CASE op = "=" -> cell.v = value.v
                                       [] op = "!=" -> cell.v # value.v
                                       [] op = "<" -> cell.v < value.v
                                       [] op = "<=" -> cell.v <= value.v
                                       [] op = ">" -> cell.v > value.v
                                       [] op = ">=" -> cell.v >= value.v)
           /\ op \notin CompareOps \cup {"IS", "IS NOT"} => matched = "False"]_vars

\* C23: an auto-commit SELECT * FROM a view that returns gives exactly the
\* rows the view's stored SELECT gives when the same connection executes it
\* directly in the state the read started from.
C23_ViewNeverStale ==
    [][\A c \in Conns :
          (/\ last'.conn = c
           /\ last'.op = "SELECT"
           /\ last'.name \in ViewNames
           /\ last'.outcome = "ok"
           /\ conns[c].transaction_mode = None
           /\ conns[c].transaction_lock = None
           /\ HasTable(CommittedDb(conns[c].filename), last'.name)
           /\ GetTable(CommittedDb(conns[c].filename), last'.name).kind = "View")
          => LET view == GetTable(CommittedDb(conns[c].filename), last'.name)
                 direct == ExecSelect(World, c, view.statement.name)
             IN direct.outcome = "ok" /\ last'.result = direct.result]_vars

\* C24: after every statement that returned, every view of every Database
\* object whose backing table exists has the schema View.__init__ derives
\* from the backing table's current schema: its unqualified restriction to
\* the declared columns in list order, the whole of it for `*`.
C24_ViewSchemaFollowsTable ==
    last.outcome = "ok" =>
        \A id \in DOMAIN heap : \A i \in 1..Len(heap[id].tables) :
            LET view == heap[id].tables[i].v
            IN (view.kind = "View" /\ HasTable(heap[id], view.statement.name))
               => view.schema =
                     NewView(view.name, view.statement.name, view.view_columns,
                             GetTable(heap[id], view.statement.name).schema,
                             view.statement).schema

\* C25: `SELECT * FROM t ORDER BY c` returns: its result holds every row of
\* t exactly once, each with its cells in schema order, ascending by the
\* cell of column c, rows of equal key in their insertion order.
C25_OrderBySorts ==
    last.op = "SELECT ORDER BY" =>
        LET rows == GetTable(heap[0], RowTable).rows
            index == get_column_index(GetTable(heap[0], RowTable), last.name)
            n == Len(rows)
        IN /\ last.outcome = "ok"
           /\ Len(last.result) = n
           /\ \E p \in [1..n -> 1..n] :
                 /\ \A j, k \in 1..n : j # k => p[j] # p[k]
                 /\ \A k \in 1..n : last.result[k] = rows[p[k]]
                 /\ \A j, k \in 1..n : j < k =>
                        /\ rows[p[j]][index].v <= rows[p[k]][index].v
                        /\ rows[p[j]][index].v = rows[p[k]][index].v => p[j] < p[k]

\* C26: after a LEFT OUTER JOIN the joined_table slot of the working
\* database holds one row per row of the left table, in the left table's
\* order: the left row followed by the first right row of equal join key,
\* or by a null for every right column when no right row has that key.
C26_JoinOneRowPerLeftRow ==
    last.op = "JOIN" =>
        LET table1 == GetTable(heap[0], RowTable)
            table2 == GetTable(heap[0], RightTable)
            Matches(i) == {j \in 1..Len(table2.rows) : table2.rows[j][1] = table1.rows[i][1]}
            First(S) == CHOOSE j \in S : \A k \in S : j <= k
        IN /\ Len(heap[0].joined_table) = 1
           /\ Len(heap[0].joined_table[1].rows) = Len(table1.rows)
           /\ \A i \in 1..Len(table1.rows) :
                 heap[0].joined_table[1].rows[i] =
                     table1.rows[i] \o (IF Matches(i) = {}
                                        THEN [k \in 1..table2.column_size |-> NullV]
                                        ELSE table2.rows[First(Matches(i))])

\* C27: a DELETE with a predicate leaves exactly the rows that do not match
\* it, in their original order, and a DELETE without one leaves no row; an
\* UPDATE leaves as many rows in the same order, the assigned column of
\* every row matching the predicate (of every row without one) holding
\* the new value and every other cell what it held.  A row matches
\* `col IS NULL` iff its cell is null, `col IS NOT NULL` iff it is not, and
\* a comparison iff neither side is null and the comparison holds.
C27_DeleteUpdateExact ==
    [][last'.op \in {"DELETE", "UPDATE"} =>
        LET table == GetTable(heap[0], RowTable)
            before == table.rows
            after == GetTable(heap'[0], RowTable).rows
            conditions == last'.result[1]
            CellOf(row, column) ==
                IF Len(row) < get_column_index(table, column) THEN NullV
                ELSE row[get_column_index(table, column)]
            Holds(cell, op, value) ==
                CASE op = "IS" -> cell = NullV
                  [] op = "IS NOT" -> cell # NullV
                  [] op = "=" -> cell # NullV /\ value # NullV /\ cell.v = value.v
                  [] op = "<" -> cell # NullV /\ value # NullV /\ cell.v < value.v
            Matches(row) ==
                conditions = <<>> \/ Holds(CellOf(row, conditions[1].column),
                                            conditions[1].op, conditions[1].value)
        IN /\ last'.outcome = "ok"
           /\ last'.op = "DELETE" =>
                 after = SelectSeq(before, LAMBDA row : ~Matches(row))
           /\ last'.op = "UPDATE" =>
                 LET pair == last'.result[2][1]
                     index == get_column_index(table, pair.column)
                 IN /\ Len(after) = Len(before)
                    /\ \A i \in 1..Len(before) :
                          /\ Len(after[i]) = Len(before[i])
                          /\ Matches(before[i]) =>
                                 Len(before[i]) >= index /\ after[i][index] = pair.value
                          /\ \A k \in 1..Len(before[i]) :
                                 (k # index \/ ~Matches(before[i])) => after[i][k] = before[i][k]]_vars

\* C28: the document close() writes, read back, is a database of the same
\* name and size holding the same tables in the same order, each with the
\* same name, schema and rows, and that database can be written again.
C28_PersistenceRoundTrip ==
    \A c \in Conns :
        (last.op = "CLOSE" /\ last.conn = c /\ last.outcome = "ok") =>
            LET data == WorkingDb(World, c)
                loaded == read_json_file(last.result[1])
            IN /\ loaded.name = data.name
               /\ loaded.size = data.size
               /\ Len(loaded.tables) = Len(data.tables)
               /\ \A i \in 1..Len(data.tables) :
                     /\ loaded.tables[i].k = data.tables[i].k
                     /\ loaded.tables[i].v.name = data.tables[i].v.name
                     /\ loaded.tables[i].v.schema = data.tables[i].v.schema
                     /\ loaded.tables[i].v.rows = data.tables[i].v.rows
               /\ write_json_file(loaded).outcome = "ok"

\* C29: every iteration of the loop of tokenize either leaves a strictly
\* shorter query or raises the malformed-statement error ("Query didn't get
\* shorter", an AssertionError); so the call returns its tokens or raises
\* that error, and no other.
C29_TokenizeTerminates ==
    [][(last.op = "tokenize" /\ last.outcome = "running" /\ last.result[1] # <<>>) =>
          \/ last'.outcome = "running" /\ Len(last'.result[1]) < Len(last.result[1])
          \/ last'.outcome = "AssertionError"]_vars

\* C30: a query `col op value`, op one of =, !=, <, <=, >, >=, is tokenized
\* into exactly the three tokens col, op, value.
C30_OperatorOneToken ==
    \A op \in {<<"=">>, <<"!", "=">>, <<"<">>, <<"<", "=">>, <<">">>, <<">", "=">>} :
        \A value \in {[ty |-> "int", s |-> <<"1">>], StrToken(<<"E">>)} :
            (/\ last.op = "tokenize"
             /\ last.outcome # "running"
             /\ last.name = <<"E">> \o op \o value.s)
            => /\ last.outcome = "ok"
               /\ last.result[2] = <<StrToken(<<"E">>), StrToken(op), value>>

\* C31: in every reachable state each counter of a file's lock manager is
\* the number of connections to the file whose current lock is of that
\* kind.
C31_CountersCountHolders ==
    \A f \in DOMAIN lockSystems :
        LET Holders(lk) == {c \in Conns : /\ conns[c].open
                                          /\ conns[c].filename = f
                                          /\ conns[c].transaction_lock = lk}
        IN /\ lockSystems[f].shared = Cardinality(Holders("shared"))
           /\ lockSystems[f].reserved = Cardinality(Holders("reserved"))
           /\ lockSystems[f].exclusive = Cardinality(Holders("exclusive"))

\* C33: an auto-commit statement that raises after its lock check, because
\* the table or view it creates exists or the table it names is absent,
\* leaves the lock the connection holds and the lock counters as they were
\* before the statement.
C33_AutoCommitErrorReleases ==
    [][\A c \in Conns :
          (/\ last'.conn = c
           /\ last'.op \in WriteOps \cup ReadOps
           /\ last'.outcome \in {"schema-violation", "missing-table"}
           /\ conns[c].open
           /\ conns[c].transaction_mode = None)
          => /\ conns'[c].transaction_lock = conns[c].transaction_lock
             /\ lockSystems' = lockSystems]_vars

\* C34: a BEGIN that raises lock-conflict leaves the connection without an
\* open transaction: its mode is still none, its lock and its working
\* database are what they were.
C34_FailedBeginLeavesNoTransaction ==
    [][\A c \in Conns :
          (/\ last'.conn = c
           /\ last'.op = "BEGIN"
           /\ last'.outcome = "lock-conflict"
           /\ conns[c].open)
          => /\ conns'[c].transaction_mode = None
             /\ conns'[c].transaction_lock = conns[c].transaction_lock
             /\ heap'[conns'[c].database] = heap[conns[c].database]
             /\ conns'[c].database = allDatabases'[conns'[c].filename]
                   <=> conns[c].database = allDatabases[conns[c].filename]]_vars

\* C35: a COMMIT of a transaction holding the reserved lock that raises
\* lock-conflict leaves the transaction open with its mode, its reserved
\* lock and its snapshot, and leaves the counters and the committed
\* database as they were; and a COMMIT of such a transaction executed when
\* no shared lock is out returns, publishes the snapshot and ends the
\* transaction.
C35_RefusedCommitKeepsTransaction ==
    [][\A c \in Conns :
          (/\ last'.conn = c
           /\ last'.op = "COMMIT"
           /\ conns[c].open
           /\ conns[c].transaction_mode # None
           /\ conns[c].transaction_lock = "reserved")
          => LET f == conns[c].filename
             IN /\ last'.outcome = "lock-conflict" =>
                      /\ conns'[c].transaction_mode = conns[c].transaction_mode
                      /\ conns'[c].transaction_lock = "reserved"
                      /\ heap'[conns'[c].database] = heap[conns[c].database]
                      /\ conns'[c].database # allDatabases'[f]
                      /\ lockSystems' = lockSystems
                      /\ heap'[allDatabases'[f]] = heap[allDatabases[f]]
                /\ lockSystems[f].shared = 0 =>
                      /\ last'.outcome = "ok"
                      /\ heap'[allDatabases'[f]] = heap[conns[c].database]
                      /\ conns'[c].transaction_mode = None
                      /\ conns'[c].transaction_lock = None]_vars

\* A connection whose snapshot differs from the committed database and
\* that holds the reserved lock was just refused its COMMIT while another
\* connection holds a shared lock.
C35_Witness ==
    \E c \in Conns, d \in Conns :
        /\ SameFile(c, d)
        /\ last.conn = c
        /\ last.op = "COMMIT"
        /\ last.outcome = "lock-conflict"
        /\ conns[c].transaction_lock = "reserved"
        /\ heap[conns[c].database] # CommittedDb(conns[c].filename)
        /\ conns[d].transaction_lock = "shared"

\* C36: an add_lock call that raises lock-conflict leaves the shared, the
\* reserved and the exclusive counter each as it was before the call,
\* whichever lock was requested and whichever lock the caller holds; in
\* particular a refused request for reserved by a holder of shared leaves
\* the shared counter, and so the caller's shared lock, in place.
C36_RefusedAddLockChangesNothing ==
    [][(last'.op = "add_lock" /\ last'.outcome = "lock-conflict")
       => /\ lockSystems'[LockFile].shared = lockSystems[LockFile].shared
          /\ lockSystems'[LockFile].reserved = lockSystems[LockFile].reserved
          /\ lockSystems'[LockFile].exclusive = lockSystems[LockFile].exclusive]_vars

\* A holder of shared asked for reserved while another reserved lock is
\* out and was refused; its shared lock is still counted.
C36_Witness ==
    /\ last = [conn |-> 0, op |-> "add_lock", name |-> "reserved",
               outcome |-> "lock-conflict", result |-> <<"shared">>]
    /\ lockSystems[LockFile] = [shared |-> 1, reserved |-> 1, exclusive |-> 0]

\* C37: while a connection's transaction stays open, the lock the connection
\* holds never moves down in the order none < shared < reserved < exclusive:
\* across every step that starts and ends with the connection inside a
\* transaction (a read, a write, a refused statement, a step of another
\* connection) the rank of its lock after the step is at least the rank
\* before it.
LockRank(lock) ==
    IF lock = None THEN 0
    ELSE IF lock = "shared" THEN 1
    ELSE IF lock = "reserved" THEN 2
    ELSE 3

C37_LockOnlyRisesInTransaction ==
    [][\A c \in Conns :
          (/\ conns[c].open /\ conns'[c].open
           /\ conns[c].transaction_mode # None
           /\ conns'[c].transaction_mode # None)
          => LockRank(conns'[c].transaction_lock) >= LockRank(conns[c].transaction_lock)]_vars

\* A connection that read and then wrote in its DEFERRED transaction went
\* from the shared lock to the reserved lock, and a later read in the same
\* transaction left it with the reserved lock.
C37_Witness ==
    \E c \in Conns :
        /\ last.conn = c
        /\ last.op = "SELECT"
        /\ last.outcome = "ok"
        /\ conns[c].transaction_mode = "DEFERRED"
        /\ conns[c].transaction_lock = "reserved"

C39_CloseWritesCommitted ==
    \A c \in Conns :
        (last.op = "CLOSE" /\ last.conn = c /\ last.outcome = "ok") =>
            last.result = write_json_file(CommittedDb(conns[c].filename)).json

\* C32: the COMMIT of a transaction that wrote loses nothing that was
\* committed before it.  The statements here only add tables and rows, so a
\* snapshot that holds every published write holds every table of the
\* committed database with every row of it: after the COMMIT returned, each
\* table that was committed before the call is still committed, and its
\* rows before the call are the first rows of its rows after the call.
C32_NoLostUpdate ==
    [][\A c \in Conns :
          (/\ last'.conn = c
           /\ last'.op = "COMMIT"
           /\ last'.outcome = "ok"
           /\ conns[c].open
           /\ conns[c].transaction_mode # None
           /\ wrote[c])
          => LET f == conns[c].filename
                 before == heap[allDatabases[f]]
                 after == heap'[allDatabases'[f]]
             IN \A n \in TableNames :
                   HasTable(before, n) =>
                      /\ HasTable(after, n)
                      /\ Len(GetTable(after, n).rows) >= Len(GetTable(before, n).rows)
                      /\ SubSeq(GetTable(after, n).rows, 1, Len(GetTable(before, n).rows))
                            = GetTable(before, n).rows]_vars

====
